---- MODULE Spec2Model ----
(***************************************************************************)
(* Credibility scoring engine of market-credibility-pro: the signal        *)
(* producers (identifier validators, URL hygiene, numeric anomaly          *)
(* detector, market contradiction, tip classifier, official-source         *)
(* verifier), the evidence aggregator score_from_signals, the content hash *)
(* of an evidence case and its persistence; the identifier extraction of   *)
(* the document verifier, the explanation generator gemini_explain, the    *)
(* curated entity lookup, the cached regulator map, and the agent sweep    *)
(* run_credibility_crew with its use in the chat analysis.                 *)
(*                                                                         *)
(* Python values are modelled as follows.  A dict is a function from its   *)
(* string keys to values (the empty dict is the function with the empty    *)
(* domain); a key that is missing from a dict is missing from the          *)
(* function's domain.  A str that is inspected character by character is a *)
(* sequence of one-character strings.  A str that sits in a place where    *)
(* the code tests isinstance(v, dict) is wrapped as [py_str |-> s].        *)
(***************************************************************************)
EXTENDS Integers, Sequences, FiniteSets, TLC

VARIABLES
    \* document verifier (ui/pages/document_verifier.py)
    stage,        \* "collect" | "linked" | "scored" ("idle": no analysis)
    signals,      \* the signals mapping handed to score_from_signals
    score,        \* total returned by score_from_signals
    breakdown,    \* rows of the returned DataFrame, in order
    link,         \* the URL checked and the collaborators' replies, {} if none
    \* identifier validators (core/registry_checks.py, core/verifiers.py)
    id_in,        \* the identifier string
    id_net,       \* outcome of the GLEIF call during this check
    id_reg,       \* result of bulk_registry_check, {} before it ran
    id_adv,       \* result of advisor_entity_check, {} before it ran
    \* numeric anomaly detector (core/anomaly_detector.py)
    in_series,    \* the series handed to detect_numeric_anomalies
    in_threshold, \* its threshold
    anomaly_out,  \* its result, {} before it ran
    \* market contradiction (core/market_contra.py)
    in_prices,    \* the list of closes handed to contradiction_score
    in_tone,      \* its announcement_type
    rsi_out,      \* result of compute_rsi(in_prices), {} before it ran
    contra_out,   \* result of contradiction_score, {} before it ran
    \* tip classifier (core/fraud_detection.py)
    in_tip,       \* the text handed to tip_verdict
    in_flag,      \* its ta_contradiction flag
    tip_out,      \* result of tip_verdict, {} before it ran
    \* announcement verification (ui/components/helpers.py)
    reg_map,      \* the regulator map that load_regulator_map returns
    ann_title,    \* title, company_hint and link handed to verify_announcement
    ann_hint,
    ann_link,
    ann_out,      \* its result, {} before it ran
    \* content hash (ui/components/helpers.py)
    pay_a,        \* two payloads handed to hash_payload
    pay_b,
    hash_a,       \* their digests, {} before hash_payload ran
    hash_b,
    \* evidence cases and their persistence (ui/pages, ui/components/helpers.py)
    cases,        \* the evidence dict each page holds, {} before its analysis
    sb_config,    \* what get_supabase finds: "missing" | "client_error" | "ready"
    store,        \* rows of the table evidence_cases, oldest first
    save_calls,   \* number of save_evidence calls so far
    save_out,     \* return value of the last save_evidence call, {} before
    insert_attempts,  \* inserts executed by the last save_evidence call
    \* identifiers of a document (ui/pages/document_verifier.py)
    doc_text,  \* the combined text handed to extract_identifiers
    doc_net,  \* outcome of the GLEIF call during the registry check
    doc_stage,  \* "text" | "extracted" | "checked" ("idle": no document)
    doc_ids,  \* result of extract_identifiers, {} before it ran
    doc_reg,  \* the registry signal, {} before bulk_registry_check ran
    \* grounded explanation (ui/components/helpers.py)
    gem_context,  \* the context dict handed to gemini_explain
    gem_key,  \* whether GEMINI_API_KEY is set
    gem_reply,  \* what the generator call gives
    gem_out,  \* result of gemini_explain, {} before it ran
    \* curated registry lookup (ui/components/helpers.py)
    lk_claim,  \* the claim handed to lookup_entity
    lk_file,  \* data/lookup.json
    lk_out,  \* result of lookup_entity, {} before it ran
    \* regulator map cache (ui/components/helpers.py)
    rm_file,  \* config/regulator_map.json
    G_REG_MAP,  \* the module global _G_REG_MAP
    rm_calls,  \* calls of load_regulator_map so far
    rm_opens,  \* how often the file was opened
    rm_first,  \* file and return value of the first call, None before it
    rm_ret,  \* return value of the last call, None before the first
    \* crew sweep (crewai_layer/orchestrator.py, ui/pages/chat.py)
    crew_state,  \* "unavailable" | "broken" | "ready"
    crew_strict,  \* the strict argument of run_credibility_crew
    crew_i,  \* place in AGENTS of the next agent to run
    crew_res,  \* what the last agent run gave, None before the first
    crew_merged,  \* the dict merged
    crew_ran,  \* class names of the agents run so far, in order
    crew_last,  \* the verdict last reported by an agent, "unknown" before
    crew_ret,  \* return value of run_credibility_crew, {} before it returned
    chat_out  \* baseline verdict and out of _analyze_claim after step 3, {} before

scoreVars == <<stage, signals, score, breakdown, link>>

idVars == <<id_in, id_net, id_reg, id_adv>>

anomVars == <<in_series, in_threshold, anomaly_out>>

contraVars == <<in_prices, in_tone, rsi_out, contra_out>>

tipVars == <<in_tip, in_flag, tip_out>>

annVars == <<reg_map, ann_title, ann_hint, ann_link, ann_out>>

hashVars == <<pay_a, pay_b, hash_a, hash_b>>

vaultVars == <<cases, sb_config, store, save_calls, save_out, insert_attempts>>

docVars == <<doc_text, doc_net, doc_stage, doc_ids, doc_reg>>

geminiVars == <<gem_context, gem_key, gem_reply, gem_out>>

lookupVars == <<lk_claim, lk_file, lk_out>>

regMapVars == <<rm_file, G_REG_MAP, rm_calls, rm_opens, rm_first, rm_ret>>

crewVars == <<crew_state, crew_strict, crew_i, crew_res, crew_merged, crew_ran, crew_last, crew_ret, chat_out>>

vars == <<stage, signals, score, breakdown, link, id_in, id_net, id_reg, id_adv,
          in_series, in_threshold, anomaly_out,
          in_prices, in_tone, rsi_out, contra_out,
          in_tip, in_flag, tip_out,
          reg_map, ann_title, ann_hint, ann_link, ann_out,
          pay_a, pay_b, hash_a, hash_b,
          cases, sb_config, store, save_calls, save_out, insert_attempts,
          doc_text, doc_net, doc_stage, doc_ids, doc_reg,
          gem_context, gem_key, gem_reply, gem_out,
          lk_claim, lk_file, lk_out,
          rm_file, G_REG_MAP, rm_calls, rm_opens, rm_first, rm_ret,
          crew_state, crew_strict, crew_i, crew_res, crew_merged, crew_ran, crew_last, crew_ret, chat_out>>

(***************************************************************************)
(* Python helpers                                                          *)
(***************************************************************************)
EmptyDict == [k \in {} |-> TRUE]

\* d.get(k, default)
Get(d, k, default) == IF k \in DOMAIN d THEN d[k] ELSE default

\* bool(d) for a dict d
Truthy(d) == DOMAIN d # {}

\* (d or {}) for a dict d
OrEmpty(d) == IF Truthy(d) THEN d ELSE EmptyDict

\* isinstance(v, dict) for a value that is a dict or a wrapped str
IsDict(v) == "py_str" \notin DOMAIN v

Max(a, b) == IF a >= b THEN a ELSE b

Min(a, b) == IF a <= b THEN a ELSE b

Abs(a) == IF a < 0 THEN -a ELSE a

RECURSIVE SumContrib(_)
\* sum(v for _, v, _ in rows)
SumContrib(rows) ==
    IF rows = <<>> THEN 0
    ELSE rows[1].Contribution + SumContrib(Tail(rows))

Row(dim, pts, why) == [Dimension |-> dim, Contribution |-> pts, Why |-> why]

(***************************************************************************)
(* Characters and strings (a str is a sequence of one-character strings)   *)
(***************************************************************************)
UpperSeq == <<"A","B","C","D","E","F","G","H","I","J","K","L","M",
              "N","O","P","Q","R","S","T","U","V","W","X","Y","Z">>

LowerSeq == <<"a","b","c","d","e","f","g","h","i","j","k","l","m",
              "n","o","p","q","r","s","t","u","v","w","x","y","z">>

Digits == {"0","1","2","3","4","5","6","7","8","9"}

UpperLetters == {UpperSeq[i] : i \in DOMAIN UpperSeq}

LowerLetters == {LowerSeq[i] : i \in DOMAIN LowerSeq}

\* str.isspace() for the characters of the model's alphabet
Whitespace == {" ", "\n", "\t"}

\* U+212A KELVIN SIGN, the one non-ASCII letter of the model's alphabet: an
\* upper-case letter whose lower case is the ASCII k
KelvinSign == "U+212A"

\* c.upper() and c.lower() for one character
UpperChar(c) ==
    IF c \in LowerLetters
    THEN UpperSeq[CHOOSE i \in DOMAIN LowerSeq : LowerSeq[i] = c]
    ELSE c

LowerChar(c) ==
    IF c \in UpperLetters
    THEN LowerSeq[CHOOSE i \in DOMAIN UpperSeq : UpperSeq[i] = c]
    ELSE IF c = KelvinSign THEN "k"
    ELSE c

\* s.upper(), s.lower()
StrUpper(s) == [i \in DOMAIN s |-> UpperChar(s[i])]

StrLower(s) == [i \in DOMAIN s |-> LowerChar(s[i])]

\* (sub in s) for two strs
Contains(sub, s) ==
    \E i \in 0..(Len(s) - Len(sub)) : SubSeq(s, i + 1, i + Len(sub)) = sub

(***************************************************************************)
(* ui/components/helpers.py: url hygiene                                   *)
(*                                                                         *)
(* A URL is [scheme, netloc]: url.startswith("http://") or                 *)
(* url.startswith("https://") is scheme \in {"http", "https"}, and         *)
(* urlparse(url).netloc is netloc.                                         *)
(***************************************************************************)
HttpSchemes == {"http", "https"}

\* url_domain(url): urlparse(url).netloc.lower()
url_domain(url) == StrLower(url.netloc)

\* the 'official-ish' whitelist of check_document_link
OfficialMarkers ==
    { <<"s","e","b","i">>,
      <<"n","s","e","i","n","d","i","a">>,
      <<"b","s","e","i","n","d","i","a">>,
      <<"g","l","e","i","f">>,
      <<"f","d","a",".","g","o","v">>,
      <<"c","d","s","c","o">> }

\* A JSON null met where the code expects a dict (its .get raises AttributeError)
PyNone == [py_none |-> TRUE]

IsNone(v) == "py_none" \in DOMAIN v

\* Outcomes of vt_domain_report: a typed error, a report with n malicious
\* engines, or a 200 reply whose "data" is null
VTError == [error |-> "vt_exception"]

VTReport(n) == [data |-> [attributes |-> [last_analysis_stats |-> [malicious |-> n]]]]

VTNullData == [data |-> PyNone]

\* Outcomes of urlscan_submit
USError == [error |-> "no_api_key"]

USOk == [uuid |-> "scan"]

\* check_document_link(url), with the replies of the two collaborators;
\* vt_reply is used only when the domain is non-empty
check_document_link(url, vt_reply, us_reply) ==
    IF url.scheme \notin HttpSchemes
    THEN [verdict |-> "invalid", reasons |-> <<"Not a valid http(s) URL">>,
          references |-> <<>>]
    ELSE
      LET domain == url_domain(url)
          officialish == \E x \in OfficialMarkers : Contains(x, domain)
          r1 == IF officialish
                THEN [verdict |-> "likely-official",
                      reasons |-> <<"Domain looks official">>,
                      references |-> <<url>>]
                ELSE [verdict |-> "caution", reasons |-> <<>>,
                      references |-> <<url>>]
          vt == IF domain # <<>> THEN vt_reply ELSE [error |-> "no_domain"]
          us == us_reply
          vt_ok == ~ ("error" \in DOMAIN vt)
          \* vt.get("data", {}).get("attributes", {}) raises on a null "data"
          raises == vt_ok /\ IsNone(Get(vt, "data", EmptyDict))
          cats == Get(Get(Get(vt, "data", EmptyDict), "attributes", EmptyDict),
                      "last_analysis_stats", EmptyDict)
          r2 == IF vt_ok /\ Get(cats, "malicious", 0) > 0
                THEN [r1 EXCEPT !.verdict = "risky",
                                !.reasons = Append(@, "VirusTotal flagged domain as malicious")]
                ELSE r1
          r3 == IF "error" \in DOMAIN us
                THEN [r2 EXCEPT !.reasons = Append(@, "URLScan not available")]
                ELSE r2
      IN  IF raises
          THEN [verdict |-> "error",
                reasons |-> <<"'NoneType' object has no attribute 'get'">>,
                references |-> <<url>>]
          ELSE r3

(***************************************************************************)
(* ui/pages/document_verifier.py: score_from_signals                       *)
(***************************************************************************)
\* insertion order of the identifiers dict built by bulk_registry_check
IdKindOrder == <<"lei", "isin", "cin", "sebi", "error">>

\* k.upper() for the keys of the identifiers dict
KeyUpper(k) ==
    CASE k = "lei" -> "LEI" [] k = "isin" -> "ISIN" [] k = "cin" -> "CIN"
      [] k = "sebi" -> "SEBI" [] OTHER -> "ERROR"

RECURSIVE ValidKinds(_, _)
\* the list ok of score_from_signals: k.upper() for each (k, v) in
\* id_sig.items() with isinstance(v, dict) and v.get("pattern_valid")
ValidKinds(id_sig, i) ==
    IF i > Len(IdKindOrder) THEN <<>>
    ELSE LET k == IdKindOrder[i]
             here == IF /\ k \in DOMAIN id_sig
                        /\ IsDict(id_sig[k])
                        /\ Get(id_sig[k], "pattern_valid", FALSE)
                     THEN <<KeyUpper(k)>> ELSE <<>>
         IN  here \o ValidKinds(id_sig, i + 1)

\* lookup_rows that skips the zero-point row
lookup_rows_mut_skip_zero(sig) ==
    IF Get(Get(sig, "lookup", EmptyDict), "found", FALSE)
    THEN <<Row("Local Registry Match", 20, <<"Found in data/lookup.json">>)>>
    ELSE <<>>

lookup_rows(sig) ==
    IF Get(Get(sig, "lookup", EmptyDict), "found", FALSE)
    THEN <<Row("Local Registry Match", 20, <<"Found in data/lookup.json">>)>>
    ELSE <<Row("Local Registry Match", 0, <<"No curated match">>)>>

official_rows(sig) ==
    LET off == OrEmpty(Get(sig, "official", EmptyDict))
    IN  IF Get(off, "verdict", "") = "verified"
        THEN <<Row("Official Filing Match", 30, <<"Matched regulator/exchange via scraper">>)>>
        ELSE IF Get(off, "verdict", "") = "needs_official_link"
        THEN <<Row("Regulator Suggested", 5, <<"No exact match but regulators suggested">>)>>
        ELSE <<Row("Official Filing Match", -5, <<"Not found in official sources (light check)">>)>>

url_rows(sig) ==
    LET url_sig == OrEmpty(Get(sig, "url", EmptyDict))
    IN  IF Get(url_sig, "verdict", "") = "likely-official"
        THEN <<Row("URL Domain Official-ish", 10, <<"Domain looks official">>)>>
        ELSE IF Get(url_sig, "verdict", "") = "risky"
        THEN <<Row("URL Risk (VirusTotal)", -40, <<"Malicious indicators on domain">>)>>
        ELSE IF Truthy(url_sig)
        THEN <<Row("URL Scan Presence", 2, <<"URL was scanned / reachable">>)>>
        ELSE <<>>

identifier_rows(sig) ==
    LET id_sig == OrEmpty(Get(sig, "identifiers", EmptyDict))
        ok == ValidKinds(id_sig, 1)
    IN  IF Truthy(id_sig) /\ ok # <<>>
        THEN <<Row("Identifiers Valid", 10, <<"Valid pattern(s)">> \o ok)>>
        ELSE <<>>

\* text_rows with >= in place of >
text_rows_mut_ge(sig) ==
    IF Get(sig, "text_len", 0) >= 40
    THEN <<Row("Text Extracted", 5, <<"OCR/Text extracted successfully">>)>>
    ELSE <<Row("Text Extracted", -3, <<"No/low extractable text">>)>>

\* text_rows that grants the points only when a url signal is present
text_rows_mut_url(sig) ==
    IF Get(sig, "text_len", 0) > 40 /\ Truthy(OrEmpty(Get(sig, "url", EmptyDict)))
    THEN <<Row("Text Extracted", 5, <<"OCR/Text extracted successfully">>)>>
    ELSE <<Row("Text Extracted", -3, <<"No/low extractable text">>)>>

text_rows(sig) ==
    IF Get(sig, "text_len", 0) > 40
    THEN <<Row("Text Extracted", 5, <<"OCR/Text extracted successfully">>)>>
    ELSE <<Row("Text Extracted", -3, <<"No/low extractable text">>)>>

social_rows(sig) ==
    LET soc == OrEmpty(Get(sig, "social", EmptyDict))
    IN  IF Get(soc, "label", "") = "legit"
        THEN <<Row("Social Signal", 5, <<"Classified as legit">>)>>
        ELSE IF Truthy(soc)
        THEN <<Row("Social Signal", -5, <<"Classified as suspicious">>)>>
        ELSE <<>>

anomaly_rows(sig) ==
    LET anom == OrEmpty(Get(sig, "anomaly", EmptyDict))
    IN  IF Get(anom, "any", FALSE)
        THEN <<Row("Numeric Anomaly", -12, <<"Outlier vs history (demo rule)">>)>>
        ELSE <<>>

contra_rows(sig) ==
    LET contra == OrEmpty(Get(sig, "contra", EmptyDict))
    IN  IF Get(contra, "contradiction_score", 0) >= 2
        THEN <<Row("Market Contradiction", -8, <<"Price/RSI contradicts positive claim">>)>>
        ELSE <<>>

\* the list rows of score_from_signals, in the order the code appends
score_rows(sig) ==
    <<Row("Baseline", 50, <<"Neutral baseline">>)>>
    \o lookup_rows(sig) \o official_rows(sig) \o url_rows(sig)
    \o identifier_rows(sig) \o text_rows(sig) \o social_rows(sig)
    \o anomaly_rows(sig) \o contra_rows(sig)

\* clamp_total without the upper bound
clamp_total_mut_nomin(total) == Max(0, total)

\* total = max(0, min(100, total))
clamp_total(total) == Max(0, Min(100, total))

\* score_from_signals(signals) -> (total, df)
score_from_signals(sig) ==
    LET rows == score_rows(sig)
    IN  [total |-> clamp_total(SumContrib(rows)), df |-> rows]

(***************************************************************************)
(* Regular expressions of the identifier grammars.  A pattern ^c1...cn$ is *)
(* the sequence of its character classes.                                  *)
(***************************************************************************)
UpperAlnum == UpperLetters \cup Digits

Rep(class, n) == [i \in 1..n |-> class]

\* one character against one class, under re.IGNORECASE when ic
ClassMatch(class, c, ic) ==
    \/ c \in class
    \/ ic /\ \/ UpperChar(c) \in class
             \/ LowerChar(c) \in class
             \/ UpperChar(LowerChar(c)) \in class

\* every character of s is in the class at its place
BodyMatch(pat, s, ic) ==
    /\ Len(s) = Len(pat)
    /\ \A i \in 1..Len(pat) : ClassMatch(pat[i], s[i], ic)

\* bool(re.compile("^...$").match(s)): "$" matches at the end of the string
\* and also just before a newline that ends the string
ReMatch(pat, s, ic) ==
    \/ BodyMatch(pat, s, ic)
    \/ /\ Len(s) = Len(pat) + 1
       /\ s[Len(s)] = "\n"
       /\ BodyMatch(pat, SubSeq(s, 1, Len(pat)), ic)

RECURSIVE LStrip(_)
LStrip(s) == IF s # <<>> /\ s[1] \in Whitespace THEN LStrip(Tail(s)) ELSE s

RECURSIVE RStrip(_)
RStrip(s) ==
    IF s # <<>> /\ s[Len(s)] \in Whitespace
    THEN RStrip(SubSeq(s, 1, Len(s) - 1)) ELSE s

\* s.strip()
Strip(s) == RStrip(LStrip(s))

(***************************************************************************)
(* core/registry_checks.py                                                 *)
(***************************************************************************)
\* LEI_RE = ^[A-Z0-9]{20}$
LEI_RE == Rep(UpperAlnum, 20)

\* ISIN_RE = ^[A-Z]{2}[A-Z0-9]{9}[0-9]$
ISIN_RE == Rep(UpperLetters, 2) \o Rep(UpperAlnum, 9) \o Rep(Digits, 1)

\* CIN_RE = ^[LUAP][0-9]{5}[A-Z]{2}[0-9]{4}[A-Z]{3}[0-9]{6}$, re.IGNORECASE
CIN_RE ==
    Rep({"L", "U", "A", "P"}, 1) \o Rep(Digits, 5) \o Rep(UpperLetters, 2)
    \o Rep(Digits, 4) \o Rep(UpperLetters, 3) \o Rep(Digits, 6)

\* SEBI_ID_RE = ^[0-9A-Z\-]{4,20}$
SEBI_ID_RE_class == UpperAlnum \cup {"-"}

SebiIdMatch(s) ==
    \E n \in 4..20 : ReMatch(Rep(SEBI_ID_RE_class, n), s, FALSE)

\* Outcomes of requests.get(...) against the GLEIF API
NetOutcomes == {"ok", "not_found", "server_error", "timeout", "bad_json"}

\* the call raised (inside the caller's try)
NetRaises(net) == net \in {"timeout", "bad_json"}

\* resp.status_code of a reply
StatusCode(net) ==
    CASE net = "ok" -> 200 [] net = "bad_json" -> 200
      [] net = "not_found" -> 404 [] OTHER -> 500

GleifRecord == [data |-> "lei-record"]

\* validate_lei that reports pattern_valid only once GLEIF confirmed the record
validate_lei_mut_net(lei, net) ==
    LET l == StrUpper(Strip(lei))
    IN  [input |-> l, pattern_valid |-> ReMatch(LEI_RE, l, FALSE) /\ net = "ok"]

\* validate_lei(lei), with the outcome of the GLEIF call it makes when ok
validate_lei(lei, net) ==
    LET l == StrUpper(Strip(lei))
        ok == ReMatch(LEI_RE, l, FALSE)
        info == [input |-> l, pattern_valid |-> ok]
    IN  IF ~ok THEN info
        ELSE IF net = "timeout"
        THEN info @@ [gleif_error |-> "timed out"]
        ELSE IF StatusCode(net) = 200
        THEN IF net = "bad_json"
             THEN info @@ [gleif_error |-> "Expecting value"]
             ELSE info @@ [gleif |-> GleifRecord]
        ELSE info

validate_isin(isin) ==
    LET i == StrUpper(Strip(isin))
    IN  [input |-> i, pattern_valid |-> ReMatch(ISIN_RE, i, FALSE)]

validate_cin(cin) ==
    LET c == StrUpper(Strip(cin))
    IN  [input |-> c, pattern_valid |-> ReMatch(CIN_RE, c, TRUE)]

validate_sebi_id(sebi_id) ==
    LET sid == StrUpper(Strip(sebi_id))
    IN  [input |-> sid, pattern_valid |-> SebiIdMatch(sid)]

\* bulk_registry_check(identifiers): one validator per key present
bulk_registry_check(identifiers, net) ==
    LET one(k) == CASE k = "lei" -> validate_lei(identifiers[k], net)
                    [] k = "isin" -> validate_isin(identifiers[k])
                    [] k = "cin" -> validate_cin(identifiers[k])
                    [] OTHER -> validate_sebi_id(identifiers[k])
    IN  [k \in DOMAIN identifiers \cap {"lei", "isin", "cin", "sebi"} |-> one(k)]

(***************************************************************************)
(* core/verifiers.py                                                       *)
(***************************************************************************)
\* SEBI_IA_PATTERN = ^IA\d{6}$, SEBI_RA_PATTERN = ^INA\d{6}$, re.I
SEBI_IA_PATTERN == <<{"I"}, {"A"}>> \o Rep(Digits, 6)

SEBI_RA_PATTERN == <<{"I"}, {"N"}, {"A"}>> \o Rep(Digits, 6)

\* ISIN_PATTERN = ^[A-Z]{2}[A-Z0-9]{9}\d$, re.I
ISIN_PATTERN == Rep(UpperLetters, 2) \o Rep(UpperAlnum, 9) \o Rep(Digits, 1)

\* LEI_PATTERN = ^[0-9A-Z]{18}[0-9]{2}$, re.I
LEI_PATTERN == Rep(UpperAlnum, 18) \o Rep(Digits, 2)

\* CIN_PATTERN = ^[UL][0-9]{5}[A-Z]{2}[0-9]{4}[A-Z]{3}[0-9]{6}$, re.I
CIN_PATTERN ==
    Rep({"U", "L"}, 1) \o Rep(Digits, 5) \o Rep(UpperLetters, 2)
    \o Rep(Digits, 4) \o Rep(UpperLetters, 3) \o Rep(Digits, 6)

valid_sebi_id(text) ==
    ReMatch(SEBI_IA_PATTERN, text, TRUE) \/ ReMatch(SEBI_RA_PATTERN, text, TRUE)

valid_isin(text) == ReMatch(ISIN_PATTERN, text, TRUE)

valid_lei(text) == ReMatch(LEI_PATTERN, text, TRUE)

valid_cin(text) == ReMatch(CIN_PATTERN, text, TRUE)

\* r.ok: status below 400
ResponseOk(net) == ~NetRaises(net) /\ StatusCode(net) < 400

\* lei_lookup(name_or_lei), with the outcome of its GLEIF call
lei_lookup(name_or_lei, net) ==
    IF ResponseOk(net) THEN GleifRecord
    ELSE [error |-> "lookup_failed"]

(***************************************************************************)
(* ui/components/helpers.py: advisor_entity_check                          *)
(***************************************************************************)
advisor_entity_check(identifier_or_name, net) ==
    LET fmt == [is_sebi_format |-> valid_sebi_id(identifier_or_name),
                is_isin_format |-> valid_isin(identifier_or_name),
                is_lei_format |-> valid_lei(identifier_or_name),
                is_cin_format |-> valid_cin(identifier_or_name)]
        looked == \/ fmt.is_lei_format
                  \/ ~(fmt.is_sebi_format \/ fmt.is_isin_format \/ fmt.is_cin_format)
    IN  fmt @@ [lei_data |-> IF looked THEN lei_lookup(identifier_or_name, net)
                             ELSE PyNone]

(***************************************************************************)
(* core/anomaly_detector.py                                                *)
(*                                                                         *)
(* pandas holds the series as float64; the model holds each number as an   *)
(* exact fraction [num, den] with den # 0, and None/NaN as PyNone.         *)
(***************************************************************************)
Rat(n, d) == [num |-> n, den |-> d]

RatInt(n) == Rat(n, 1)

RatSub(a, b) == Rat(a.num * b.den - b.num * a.den, a.den * b.den)

RatDiv(a, b) == Rat(a.num * b.den, a.den * b.num)

RatAbs(a) == Rat(Abs(a.num), Abs(a.den))

RatIsZero(a) == a.num = 0

Sign(n) == IF n < 0 THEN -1 ELSE 1

\* a > b for two fractions
RatGt(a, b) ==
    a.num * b.den * Sign(a.den) * Sign(b.den) > b.num * a.den * Sign(a.den) * Sign(b.den)

RECURSIVE DropNa(_)
\* Series.dropna()
DropNa(s) ==
    IF s = <<>> THEN <<>>
    ELSE IF IsNone(s[1]) THEN DropNa(Tail(s))
    ELSE <<s[1]>> \o DropNa(Tail(s))

RECURSIVE RatSum(_)
RatSum(s) ==
    IF s = <<>> THEN RatInt(0)
    ELSE LET r == RatSum(Tail(s))
         IN  Rat(s[1].num * r.den + r.num * s[1].den, s[1].den * r.den)

\* Series.mean() of a non-empty series
RatMean(s) == LET t == RatSum(s) IN Rat(t.num, t.den * Len(s))

\* detect_numeric_anomalies with the mean taken over the whole series
detect_mut_mean_all(series, threshold) ==
    LET s == DropNa(series)
    IN  IF Len(s) < 2
        THEN [anomaly |-> FALSE, latest |-> IF s # <<>> THEN s[Len(s)] ELSE PyNone]
        ELSE LET mean == RatMean(s)
                 latest == s[Len(s)]
                 deviation == IF ~RatIsZero(mean)
                              THEN RatDiv(RatSub(latest, mean), mean)
                              ELSE RatInt(0)
             IN  [latest |-> latest, mean |-> mean, deviation |-> deviation,
                  anomaly |-> RatGt(RatAbs(deviation), threshold)]

\* AnomalyDetector.detect_numeric_anomalies(series, threshold)
detect_numeric_anomalies(series, threshold) ==
    LET s == DropNa(series)
    IN  IF Len(s) < 2
        THEN [anomaly |-> FALSE, latest |-> IF s # <<>> THEN s[Len(s)] ELSE PyNone]
        ELSE LET mean == RatMean(SubSeq(s, 1, Len(s) - 1))
                 latest == s[Len(s)]
                 deviation == IF ~RatIsZero(mean)
                              THEN RatDiv(RatSub(latest, mean), mean)
                              ELSE RatInt(0)
             IN  [latest |-> latest, mean |-> mean, deviation |-> deviation,
                  anomaly |-> RatGt(RatAbs(deviation), threshold)]

(***************************************************************************)
(* Document verifier: render() collects the signals and scores them        *)
(***************************************************************************)
\* largest contradiction_score a contra signal carries
MaxContra == 2

\* text lengths around the threshold of the Text Extracted row
TextThreshold == 40

TextLens == {0, TextThreshold, TextThreshold + 1}

\* a signal key that is absent from the mapping
Absent == EmptyDict

Sig(k, v) == [x \in {k} |-> v]

LookupSignals ==
    { Absent,
      Sig("lookup", [found |-> FALSE, reason |-> "no entity match"]),
      Sig("lookup", [found |-> TRUE, entity |-> "TCS"]) }

OfficialSignals ==
    { Absent }
    \cup { Sig("official", [verdict |-> v, reason |-> "r"]) :
             v \in {"verified", "needs_official_link", "unverified"} }

\* render: url_hyg = check_document_link(url) if url else {}
NoUrlSignals == { Absent, Sig("url", EmptyDict) }

IdLipsum == <<"L","I","P","S","U","M","1","2","3","4","5","6","7","8","9","0","A","B","C","D">>

IdShort == <<"s","h","o","r","t","1","2","3">>

\* render: reg = bulk_registry_check(ids), or {"error": ...} when it raised
IdentifierSignals ==
    { Sig("identifiers", EmptyDict),
      Sig("identifiers", [error |-> [py_str |-> "registry check failed"]]),
      Sig("identifiers", bulk_registry_check([lei |-> IdLipsum], "not_found")),
      Sig("identifiers", bulk_registry_check([lei |-> IdShort], "ok")) }

TextLenSignals == { Sig("text_len", n) : n \in TextLens }

SocialSignals ==
    { Absent }
    \cup { Sig("social", [label |-> l]) : l \in {"legit", "suspicious"} }

AnomalySignals ==
    { Absent } \cup { Sig("anomaly", [any |-> b]) : b \in BOOLEAN }

ContraSignals ==
    { Absent } \cup { Sig("contra", [contradiction_score |-> n]) : n \in 1..MaxContra }

\* the URLs a user can enter: a non-http string, and http(s) URLs with an
\* empty, an ordinary and an official-looking host
Urls ==
    { [scheme |-> "ftp", netloc |-> <<"x",".","i","o">>],
      [scheme |-> "http", netloc |-> <<>>],
      [scheme |-> "https", netloc |-> <<"x",".","i","o">>],
      [scheme |-> "https", netloc |-> <<"S","E","B","I",".","i","n">>] }

VTReplies == { VTError, VTReport(0), VTReport(1), VTNullData }

USReplies == { USError, USOk }

\* a collaborator that check_document_link did not call
NotCalled == [not_called |-> TRUE]

\* check_document_link calls vt_domain_report only for an http(s) URL with a
\* non-empty domain, and urlscan_submit only if nothing raised before it
VTCalled(url) == url.scheme \in HttpSchemes /\ url_domain(url) # <<>>

USCalled(url, vt) ==
    url.scheme \in HttpSchemes /\ ~(VTCalled(url) /\ vt = VTNullData)

\* the checks of one URL: the replies of the collaborators that are called
LinkRuns ==
    { [url |-> u,
       vt |-> IF VTCalled(u) THEN vt ELSE NotCalled,
       us |-> IF USCalled(u, vt) THEN us ELSE NotCalled] :
      u \in Urls, vt \in VTReplies, us \in USReplies }

\* every url signal render can hold
UrlSignals ==
    NoUrlSignals
    \cup { Sig("url", check_document_link(r.url, r.vt, r.us)) : r \in LinkRuns }

ScoreInit ==
    /\ stage = "collect"
    /\ \E l \in LookupSignals, o \in OfficialSignals, u \in NoUrlSignals,
          i \in IdentifierSignals, t \in TextLenSignals, s \in SocialSignals,
          a \in AnomalySignals, c \in ContraSignals :
            signals = l @@ o @@ u @@ i @@ t @@ s @@ a @@ c
    /\ score = -1
    /\ breakdown = <<>>
    /\ link = EmptyDict

ScoreIdle ==
    /\ stage = "idle"
    /\ signals = EmptyDict
    /\ score = -1
    /\ breakdown = <<>>
    /\ link = EmptyDict

\* render step 3: url_hyg = check_document_link(url)
CheckDocumentLink ==
    /\ stage = "collect"
    /\ "url" \in DOMAIN signals
    /\ \E r \in LinkRuns :
         /\ signals' = [signals EXCEPT !["url"] = check_document_link(r.url, r.vt, r.us)]
         /\ link' = r
    /\ stage' = "linked"
    /\ UNCHANGED <<score, breakdown, idVars, anomVars, contraVars, tipVars,
                 annVars, hashVars, vaultVars, docVars, geminiVars, lookupVars, regMapVars, crewVars>>

\* render step 7: score, breakdown = score_from_signals(signals)
Score ==
    /\ stage \in {"collect", "linked"}
    /\ LET r == score_from_signals(signals)
       IN  /\ score' = r.total
           /\ breakdown' = r.df
    /\ stage' = "scored"
    /\ UNCHANGED <<signals, link, idVars, anomVars, contraVars, tipVars,
                 annVars, hashVars, vaultVars, docVars, geminiVars, lookupVars, regMapVars, crewVars>>

(***************************************************************************)
(* Identifier validation of one string by both validator families          *)
(***************************************************************************)
IdLei == <<"5","4","9","3","0","0","1","K","J","T","I","I","G","C","8","Y","1","R","1","2">>

IdCin == <<"L","1","2","3","4","5","M","H","2","0","2","0","P","L","C","1","2","3","4","5","6">>

IdIsin == <<"I","N","E","0","0","2","A","0","1","0","1","8">>

IdSebi == <<"I","N","A","1","2","3","4","5","6">>

IdBases == { IdLipsum, IdLei, IdCin, IdIsin, IdSebi, IdShort }

\* characters written over, before or after a base string
MutChars == { "a", "U", "P", "X", "7", "-", " ", "\n" }

IdInputs ==
    IdBases
    \cup UNION { { [b EXCEPT ![p] = c] : p \in DOMAIN b, c \in MutChars } : b \in IdBases }
    \cup { b \o <<c>> : b \in IdBases, c \in MutChars }
    \cup { <<c>> \o b : b \in IdBases, c \in MutChars }
    \cup { SubSeq(b, 1, Len(b) - 1) : b \in IdBases }
    \cup { <<>> }

IdKinds == {"lei", "isin", "cin", "sebi"}

IdInit ==
    /\ id_in \in IdInputs
    /\ id_net \in NetOutcomes
    /\ id_reg = EmptyDict
    /\ id_adv = EmptyDict

IdIdle ==
    /\ id_in = <<>>
    /\ id_net = "ok"
    /\ id_reg = EmptyDict
    /\ id_adv = EmptyDict

\* bulk_registry_check({kind: id_in})
RegistryCheck ==
    /\ id_reg = EmptyDict
    /\ \E k \in IdKinds : id_reg' = bulk_registry_check(Sig(k, id_in), id_net)
    /\ UNCHANGED <<id_in, id_net, id_adv, scoreVars, anomVars, contraVars, tipVars,
                 annVars, hashVars, vaultVars, docVars, geminiVars, lookupVars, regMapVars, crewVars>>

\* advisor_entity_check(id_in)
AdvisorEntityCheck ==
    /\ id_adv = EmptyDict
    /\ id_adv' = advisor_entity_check(id_in, id_net)
    /\ UNCHANGED <<id_in, id_net, id_reg, scoreVars, anomVars, contraVars, tipVars,
                 annVars, hashVars, vaultVars, docVars, geminiVars, lookupVars, regMapVars, crewVars>>

(***************************************************************************)
(* Numeric anomaly detection of one series                                    *)
(***************************************************************************)
MaxSeriesLen == 3

MaxVal == 2

SeriesValues == { RatInt(n) : n \in (-MaxVal)..MaxVal } \cup { PyNone }

RECURSIVE SeqsUpTo(_, _)
SeqsUpTo(S, n) ==
    IF n = 0 THEN { <<>> }
    ELSE LET shorter == SeqsUpTo(S, n - 1)
         IN  shorter \cup { Append(q, v) : q \in shorter, v \in S }

\* thresholds: 0, the default 0.2, 0.5, 1 and 2
Thresholds == { Rat(0, 1), Rat(1, 5), Rat(1, 2), Rat(1, 1), Rat(2, 1) }

AnomInit ==
    /\ in_series \in SeqsUpTo(SeriesValues, MaxSeriesLen)
    /\ in_threshold \in Thresholds
    /\ anomaly_out = EmptyDict

AnomIdle ==
    /\ in_series = <<>>
    /\ in_threshold = Rat(1, 5)
    /\ anomaly_out = EmptyDict

\* AnomalyDetector().detect_numeric_anomalies(in_series, in_threshold)
Detect ==
    /\ anomaly_out = EmptyDict
    /\ anomaly_out' = detect_numeric_anomalies(in_series, in_threshold)
    /\ UNCHANGED <<in_series, in_threshold, scoreVars, idVars, contraVars, tipVars,
                 annVars, hashVars, vaultVars, docVars, geminiVars, lookupVars, regMapVars, crewVars>>

(***************************************************************************)
(* core/market_contra.py                                                   *)
(*                                                                         *)
(* The callers hand a Python list of closes; numpy computes in float64,    *)
(* the model in exact fractions.  A call that raises returns the record    *)
(* [raised |-> <exception>] instead of a result.                           *)
(***************************************************************************)
RatAdd(a, b) == Rat(a.num * b.den + b.num * a.den, a.den * b.den)

RECURSIVE np_sum(_)
\* ndarray.sum() of integers
np_sum(s) == IF s = <<>> THEN 0 ELSE s[1] + np_sum(Tail(s))

\* np.mean of a non-empty list
np_mean(s) == Rat(np_sum(s), Len(s))

\* np.diff(data)
np_diff(data) == [i \in 1..(Len(data) - 1) |-> data[i + 1] - data[i]]

\* np.convolve(data, np.ones(window), "valid") / window; numpy swaps the
\* operands when data is the shorter one
moving_average(data, window) ==
    IF Len(data) >= window
    THEN [i \in 1..(Len(data) - window + 1) |->
              Rat(np_sum(SubSeq(data, i, i + window - 1)), window)]
    ELSE [i \in 1..(window - Len(data) + 1) |-> Rat(np_sum(data), window)]

\* compute_rsi that divides without looking at the down average
compute_rsi_mut_noguard(data, period) ==
    LET deltas == np_diff(data)
    IN  IF Len(deltas) < period
        THEN RatInt(50)
        ELSE LET seed == SubSeq(deltas, 1, period)
                 up == Rat(np_sum(SelectSeq(seed, LAMBDA d : d >= 0)), period)
                 down == Rat(-np_sum(SelectSeq(seed, LAMBDA d : d < 0)), period)
             IN  IF down.num # 0
                 THEN RatSub(RatInt(100),
                             RatDiv(RatInt(100), RatAdd(RatInt(1), RatDiv(up, down))))
                 ELSE RatInt(100)

\* compute_rsi(data, period=14)
compute_rsi(data, period) ==
    LET deltas == np_diff(data)
    IN  IF Len(deltas) < period
        THEN RatInt(50)
        ELSE LET seed == SubSeq(deltas, 1, period)
                 up == Rat(np_sum(SelectSeq(seed, LAMBDA d : d >= 0)), period)
                 down == Rat(-np_sum(SelectSeq(seed, LAMBDA d : d < 0)), period)
                 rs == IF down.num # 0 THEN RatDiv(up, down) ELSE RatInt(0)
             IN  RatSub(RatInt(100), RatDiv(RatInt(100), RatAdd(RatInt(1), rs)))

\* contradiction_score that computes the RSI from 15 closes on
contradiction_score_mut_ge15(prices, announcement_type) ==
    IF prices = <<>>
    THEN [raised |-> "IndexError"]
    ELSE LET ma20 == IF Len(prices) >= 20
                     THEN LET ma == moving_average(prices, 20) IN ma[Len(ma)]
                     ELSE np_mean(prices)
             rsi == IF Len(prices) >= 15 THEN compute_rsi(prices, 14) ELSE RatInt(50)
             last_price == RatInt(prices[Len(prices)])
             below == announcement_type = "positive" /\ RatGt(ma20, last_price)
             above == announcement_type = "negative" /\ RatGt(last_price, ma20)
             momentum == \/ RatGt(rsi, RatInt(70)) /\ announcement_type = "positive"
                         \/ RatGt(RatInt(30), rsi) /\ announcement_type = "negative"
         IN  [ma20 |-> ma20, rsi |-> rsi,
              contradiction_score |->
                  (IF below THEN 1 ELSE 0) + (IF above THEN 1 ELSE 0)
                  + (IF momentum THEN 1 ELSE 0)]

\* contradiction_score whose RSI test is an elif of the moving-average tests
contradiction_score_mut_elif(prices, announcement_type) ==
    IF prices = <<>>
    THEN [raised |-> "IndexError"]
    ELSE LET ma20 == IF Len(prices) >= 20
                     THEN LET ma == moving_average(prices, 20) IN ma[Len(ma)]
                     ELSE np_mean(prices)
             rsi == IF Len(prices) > 15 THEN compute_rsi(prices, 14) ELSE RatInt(50)
             last_price == RatInt(prices[Len(prices)])
             below == announcement_type = "positive" /\ RatGt(ma20, last_price)
             above == announcement_type = "negative" /\ RatGt(last_price, ma20)
             momentum == \/ RatGt(rsi, RatInt(70)) /\ announcement_type = "positive"
                         \/ RatGt(RatInt(30), rsi) /\ announcement_type = "negative"
         IN  [ma20 |-> ma20, rsi |-> rsi,
              contradiction_score |->
                  IF below \/ above THEN 1 ELSE IF momentum THEN 1 ELSE 0]

\* contradiction_score(prices, announcement_type="positive")
contradiction_score(prices, announcement_type) ==
    IF prices = <<>>
    THEN [raised |-> "IndexError"]     \* prices[-1] of an empty list
    ELSE LET ma20 == IF Len(prices) >= 20
                     THEN LET ma == moving_average(prices, 20) IN ma[Len(ma)]
                     ELSE np_mean(prices)
             rsi == IF Len(prices) > 15 THEN compute_rsi(prices, 14) ELSE RatInt(50)
             last_price == RatInt(prices[Len(prices)])
             below == announcement_type = "positive" /\ RatGt(ma20, last_price)
             above == announcement_type = "negative" /\ RatGt(last_price, ma20)
             momentum == \/ RatGt(rsi, RatInt(70)) /\ announcement_type = "positive"
                         \/ RatGt(RatInt(30), rsi) /\ announcement_type = "negative"
         IN  [ma20 |-> ma20, rsi |-> rsi,
              contradiction_score |->
                  (IF below THEN 1 ELSE 0) + (IF above THEN 1 ELSE 0)
                  + (IF momentum THEN 1 ELSE 0)]

\* the contra signal of document_verifier.render: the result of
\* contradiction_score, {} when the call raised
render_contra(result) == IF "raised" \in DOMAIN result THEN EmptyDict ELSE result

(***************************************************************************)
(* Technical contradiction of one price series                             *)
(***************************************************************************)
MaxPoints == 21

\* the demo series of the document verifier
DemoPrices == <<100, 102, 101, 99, 97, 96, 95, 94, 93, 92>>

Rising(n) == [i \in 1..n |-> 10 + i]

Falling(n) == [i \in 1..n |-> 50 - i]

Flat(n) == [i \in 1..n |-> 30]

\* three up, one down, ...
Rally(n) == [i \in 1..n |-> 10 + i + 2 * (i % 2)]

\* three down, one up, ...
Slide(n) == [i \in 1..n |-> 50 - i - 2 * (i % 2)]

PriceBases ==
    { DemoPrices } \cup
    UNION { { Rising(n), Falling(n), Flat(n), Rally(n), Slide(n) } : n \in 0..MaxPoints }

\* closes that replace one point of a base series
Outliers == { 0, 30, 60 }

PriceSeries ==
    PriceBases \cup
    UNION { { [b EXCEPT ![p] = v] : p \in DOMAIN b, v \in Outliers } : b \in PriceBases }

Tones == { "positive", "negative", "neutral" }

ContraInit ==
    /\ in_prices \in PriceSeries
    /\ in_tone \in Tones
    /\ rsi_out = EmptyDict
    /\ contra_out = EmptyDict

ContraIdle ==
    /\ in_prices = <<>>
    /\ in_tone = "positive"
    /\ rsi_out = EmptyDict
    /\ contra_out = EmptyDict

\* compute_rsi(in_prices)
ComputeRsi ==
    /\ rsi_out = EmptyDict
    /\ rsi_out' = [rsi |-> compute_rsi(in_prices, 14)]
    /\ UNCHANGED <<in_prices, in_tone, contra_out, scoreVars, idVars, anomVars, tipVars,
                 annVars, hashVars, vaultVars, docVars, geminiVars, lookupVars, regMapVars, crewVars>>

\* contradiction_score(in_prices, in_tone)
ContradictionScore ==
    /\ contra_out = EmptyDict
    /\ contra_out' = contradiction_score(in_prices, in_tone)
    /\ UNCHANGED <<in_prices, in_tone, rsi_out, scoreVars, idVars, anomVars, tipVars,
                 annVars, hashVars, vaultVars, docVars, geminiVars, lookupVars, regMapVars, crewVars>>

(***************************************************************************)
(* core/fraud_detection.py                                                 *)
(*                                                                         *)
(* A pattern is a sequence of items [cls, lo, many]: a character of the    *)
(* class cls, at least lo times, and any number of times more when many.   *)
(***************************************************************************)
\* a literal
Lit(cs) == [i \in DOMAIN cs |-> [cls |-> {cs[i]}, lo |-> 1, many |-> FALSE]]

\* \s*
SpaceStar == [cls |-> Whitespace, lo |-> 0, many |-> TRUE]

\* \d+
DigitPlus == [cls |-> Digits, lo |-> 1, many |-> TRUE]

RECURSIVE MatchAt(_, _, _)
\* the pattern matches a stretch of s that starts at position i
MatchAt(pat, s, i) ==
    IF pat = <<>> THEN TRUE
    ELSE LET it == pat[1]
             most == IF it.many THEN Len(s) - i + 1 ELSE it.lo
         IN  \E k \in it.lo..most :
                 /\ i + k - 1 <= Len(s)
                 /\ \A j \in i..(i + k - 1) : s[j] \in it.cls
                 /\ MatchAt(Tail(pat), s, i + k)

\* bool(re.search(pat, s))
re_search(pat, s) == \E i \in 1..(Len(s) + 1) : MatchAt(pat, s, i)

HYPE_WORDS == <<
    Lit(<<"s","u","r","e"," ","s","h","o","t">>),
    Lit(<<"g","u","a","r","a","n","t","e","e","d">>),
    Lit(<<"x">>) \o <<SpaceStar>> \o Lit(<<"r","e","t","u","r","n","s">>),
    Lit(<<"m","u","l","t","i","b","a","g","g","e","r">>),
    Lit(<<"i","n","s","i","d","e"," ","i","n","f","o">>),
    Lit(<<"f","i","r","m"," ","a","l","l","o","t","m","e","n","t">>),
    Lit(<<"p","r","e","-","i","p","o">>),
    Lit(<<"p","u","m","p">>),
    Lit(<<"t","a","r","g","e","t">>) \o <<SpaceStar, DigitPlus>> >>

RECURSIVE hype_loop(_, _)
\* the for loop of hype_score over the patterns words
hype_loop(words, t) ==
    IF words = <<>> THEN 0
    ELSE (IF re_search(words[1], t) THEN 10 ELSE 0) + hype_loop(Tail(words), t)

\* hype_score(text)
hype_score(text) == Min(100, hype_loop(HYPE_WORDS, StrLower(text)))

\* tip_verdict that leaves the score of a high-risk tip as it is
tip_verdict_mut_nofloor(text, ta_contradiction) ==
    LET hs == hype_score(text)
    IN  IF hs >= 30 \/ ta_contradiction
        THEN [risk |-> "high", score |-> hs,
              reasons |-> <<"Hype words or TA contradiction">>]
        ELSE IF hs >= 10
        THEN [risk |-> "medium", score |-> hs, reasons |-> <<"Some hype indicators">>]
        ELSE [risk |-> "low", score |-> hs, reasons |-> <<"No strong hype indicators">>]

\* tip_verdict(text, ta_contradiction)
tip_verdict(text, ta_contradiction) ==
    LET hs == hype_score(text)
    IN  IF hs >= 30 \/ ta_contradiction
        THEN [risk |-> "high", score |-> Max(hs, 70),
              reasons |-> <<"Hype words or TA contradiction">>]
        ELSE IF hs >= 10
        THEN [risk |-> "medium", score |-> hs, reasons |-> <<"Some hype indicators">>]
        ELSE [risk |-> "low", score |-> hs, reasons |-> <<"No strong hype indicators">>]

(***************************************************************************)
(* Classification of one tip                                               *)
(***************************************************************************)
MaxFragments == 3

\* pieces a tip is put together from
TipFragments == {
    <<"s","u","r","e"," ","s","h","o","t">>, <<"G","u","a","r","a","n","t","e","e","d">>, <<"x">>, <<"r","e","t","u","r","n","s">>, <<"m","u","l","t","i","b","a","g","g","e","r">>, <<"i","n","s","i","d","e"," ","i","n","f","o">>,
    <<"f","i","r","m"," ","a","l","l","o","t","m","e","n","t">>, <<"p","r","e","-","I","P","O">>, <<"P","U","M","P">>, <<"t","a","r","g","e","t">>, <<" ">>, <<"5","0","0">> }

RECURSIVE Concats(_, _)
\* the texts made of at most n pieces of S
Concats(S, n) ==
    IF n = 0 THEN { <<>> }
    ELSE LET shorter == Concats(S, n - 1)
         IN  shorter \cup { q \o f : q \in shorter, f \in S }

ExampleTip == <<"g","u","a","r","a","n","t","e","e","d"," ","m","u","l","t","i","b","a","g","g","e","r"," ","t","a","r","g","e","t"," ","5","0","0">>

TipTexts == Concats(TipFragments, MaxFragments) \cup { ExampleTip }

TipInit ==
    /\ in_tip \in TipTexts
    /\ in_flag \in BOOLEAN
    /\ tip_out = EmptyDict

TipIdle ==
    /\ in_tip = <<>>
    /\ in_flag = FALSE
    /\ tip_out = EmptyDict

\* tip_verdict(in_tip, in_flag)
TipVerdict ==
    /\ tip_out = EmptyDict
    /\ tip_out' = tip_verdict(in_tip, in_flag)
    /\ UNCHANGED <<in_tip, in_flag, scoreVars, idVars, anomVars, contraVars,
                 annVars, hashVars, vaultVars, docVars, geminiVars, lookupVars, regMapVars, crewVars>>

(***************************************************************************)
(* ui/components/helpers.py: hash_payload                                  *)
(*                                                                         *)
(* Where the order of insertion of a dict matters, the dict is the         *)
(* sequence of its items.  A JSON value is None (PyNone), an int           *)
(* [py_int], a str [py_str] or [chars], a list [py_list] or a dict         *)
(* [py_dict] of items.                                                     *)
(***************************************************************************)
Item(k, v) == [key |-> k, value |-> v]

ItemKeys(od) == { od[i].key : i \in DOMAIN od }

\* od[k]
ItemValue(od, k) == od[CHOOSE i \in DOMAIN od : od[i].key = k].value

\* od[k] = v
SetItem(od, k, v) ==
    IF k \in ItemKeys(od)
    THEN [i \in DOMAIN od |-> IF od[i].key = k THEN Item(k, v) ELSE od[i]]
    ELSE Append(od, Item(k, v))

PyInt(n) == [py_int |-> n]

PyStr(str) == [py_str |-> str]

PyText(cs) == [chars |-> cs]

PyList(l) == [py_list |-> l]

PyDict(od) == [py_dict |-> od]

\* the keys of the model in the order of sorted()
SortedKeyNames == <<"a", "b", "c", "company_hint", "hash", "link", "lookups",
                    "official", "reasons", "references", "title", "ts", "verdict">>

KeyRank(k) == CHOOSE i \in DOMAIN SortedKeyNames : SortedKeyNames[i] = k

RECURSIVE SortItems(_)
\* the items of a dict in the order of its sorted keys
SortItems(od) ==
    IF od = <<>> THEN <<>>
    ELSE LET m == CHOOSE i \in DOMAIN od :
                      \A j \in DOMAIN od : KeyRank(od[i].key) <= KeyRank(od[j].key)
         IN  <<od[m]>> \o SortItems(SubSeq(od, 1, m - 1) \o SubSeq(od, m + 1, Len(od)))

RECURSIVE json_dumps_mut_unsorted(_)
\* json.dumps that writes every dict in its insertion order
json_dumps_mut_unsorted(v) ==
    IF "py_dict" \in DOMAIN v
    THEN [object |-> [i \in DOMAIN v.py_dict |->
                          Item(v.py_dict[i].key, json_dumps_mut_unsorted(v.py_dict[i].value))]]
    ELSE IF "py_list" \in DOMAIN v
    THEN [array |-> [i \in DOMAIN v.py_list |-> json_dumps_mut_unsorted(v.py_list[i])]]
    ELSE v

RECURSIVE json_dumps(_)
\* json.dumps(v, sort_keys=True, default=str): the text written for v, every
\* dict at every depth with its keys sorted
json_dumps(v) ==
    IF "py_dict" \in DOMAIN v
    THEN [object |-> SortItems([i \in DOMAIN v.py_dict |->
                                    Item(v.py_dict[i].key, json_dumps(v.py_dict[i].value))])]
    ELSE IF "py_list" \in DOMAIN v
    THEN [array |-> [i \in DOMAIN v.py_list |-> json_dumps(v.py_list[i])]]
    ELSE v

\* hashlib.sha256().digest_size
SHA256_DIGEST_SIZE == 32

\* sha256 of the encoded text, as hexdigest(): two hexadecimal characters for
\* each byte of the digest; different texts give different digests
sha256_hexdigest(text) == [sha256 |-> text, hexlen |-> 2 * SHA256_DIGEST_SIZE]

\* hash_payload(obj) for a dict obj
hash_payload(obj) == sha256_hexdigest(json_dumps(PyDict(obj)))

(***************************************************************************)
(* core/sebi_scraper.py and ui/components/helpers.py: verify_announcement  *)
(***************************************************************************)
\* a probe that answers with blank fields
verify_against_official_sources_mut_blank(text_or_title, company_hint) ==
    [verdict |-> "", reason |-> "", links |-> <<>>]

\* verify_against_official_sources(text_or_title, company_hint)
verify_against_official_sources(text_or_title, company_hint) ==
    [verdict |-> "unverified",
     reason |-> "No official match via lightweight search",
     links |-> <<>>]

\* any(k.lower() in t for k in cfg.get("keywords", []))
keyword_hit(cfg, t) ==
    LET keywords == Get(cfg, "keywords", <<>>)
    IN  \E i \in DOMAIN keywords : Contains(StrLower(keywords[i]), t)

RECURSIVE regulator_loop_mut_nodedupe(_, _, _)
\* the loop that appends every regulator
regulator_loop_mut_nodedupe(domain, regulators, acc) ==
    IF regulators = <<>> THEN acc
    ELSE LET r == regulators[1]
         IN  regulator_loop_mut_nodedupe(domain, Tail(regulators),
                 [hits |-> Append(acc.hits, [domain |-> domain, name |-> r.name, url |-> r.url]),
                  seen |-> acc.seen \cup {r.url}])

RECURSIVE regulator_loop(_, _, _)
\* for r in cfg.get("regulators", []): append r unless its url was seen
regulator_loop(domain, regulators, acc) ==
    IF regulators = <<>> THEN acc
    ELSE LET r == regulators[1]
         IN  regulator_loop(domain, Tail(regulators),
                 IF r.url \notin acc.seen
                 THEN [hits |-> Append(acc.hits,
                                       [domain |-> domain, name |-> r.name, url |-> r.url]),
                       seen |-> acc.seen \cup {r.url}]
                 ELSE acc)

RECURSIVE domain_loop(_, _, _)
\* for domain, cfg in rm.items()
domain_loop(rm, t, acc) ==
    IF rm = <<>> THEN acc
    ELSE domain_loop(Tail(rm), t,
             IF keyword_hit(rm[1].value, t)
             THEN regulator_loop(rm[1].key, Get(rm[1].value, "regulators", <<>>), acc)
             ELSE acc)

\* suggest_official_sources(text), rm the map that load_regulator_map returns
suggest_official_sources(text, rm) ==
    domain_loop(rm, StrLower(text), [hits |-> <<>>, seen |-> {}]).hits

\* (v or "") for a str or None
OrBlank(v) == IF IsNone(v) THEN <<>> ELSE v.chars

\* " ".join([title or "", company_hint or "", link or ""]).strip()
announcement_text(title, company_hint, link_arg) ==
    Strip(OrBlank(title) \o <<" ">> \o OrBlank(company_hint) \o <<" ">> \o OrBlank(link_arg))

\* the demo test that is content with either word
demo_override_mut_either(text) ==
    \/ Contains(<<"n","o","v","a","p","h","a","r","m">>, StrLower(text))
    \/ Contains(<<"f","d","a">>, StrLower(text))

\* "novapharm" in text.lower() and "fda" in text.lower()
demo_override(text) ==
    /\ Contains(<<"n","o","v","a","p","h","a","r","m">>, StrLower(text))
    /\ Contains(<<"f","d","a">>, StrLower(text))

\* the evidence dict of verify_announcement, hash included
announcement_evidence(title, company_hint, link_arg, official, ts) ==
    LET evidence == << Item("title", title), Item("company_hint", company_hint),
                       Item("link", link_arg), Item("official", PyDict(official)),
                       Item("ts", PyInt(ts)) >>
    IN  SetItem(evidence, "hash", hash_payload(evidence))

\* verify_announcement(title, company_hint, link) at time ts with the
\* regulator map rm
verify_announcement(title, company_hint, link_arg, ts, rm) ==
    LET text == announcement_text(title, company_hint, link_arg)
    IN  IF demo_override(text)
        THEN LET reasons == <<"Matched Pharma domain and FDA approval trigger (demo)">>
                 res == << Item("verdict", PyStr("verified")),
                           Item("reasons", PyList(<<PyStr(reasons[1])>>)),
                           Item("references", PyList(
                               <<PyStr("https://www.fda.gov/drugs/drug-approvals-and-databases")>>)),
                           Item("lookups", PyList(<<PyStr("domain=pharma -> FDA/CDSCO/EMA")>>)) >>
             IN  [verdict |-> "verified", reason |-> reasons[1],
                  evidence |-> announcement_evidence(title, company_hint, link_arg, res, ts)]
        ELSE LET res == verify_against_official_sources(title, company_hint)
                 \* a missing or empty field is the falsy ""
                 verdict0 == IF Get(res, "verdict", "") # "" THEN res.verdict ELSE "unverified"
                 reasons0 == IF Get(res, "reasons", <<>>) # <<>> THEN res.reasons
                             ELSE <<Get(res, "reason", "No official record matched")>>
                 references0 == Get(res, "references", <<>>)
                 suggestions == IF verdict0 = "unverified"
                                THEN suggest_official_sources(text, rm) ELSE <<>>
                 downgraded == suggestions # <<>>
                 verdict == IF downgraded THEN "needs_official_link" ELSE verdict0
                 reasons == IF downgraded
                            THEN <<"No exact official match found; check suggested regulators based on domain keywords.">>
                            ELSE reasons0
                 references == IF downgraded
                               THEN [i \in DOMAIN suggestions |-> suggestions[i].url]
                               ELSE references0
                 official == << Item("verdict", PyStr(verdict)),
                                Item("reasons", PyList([i \in DOMAIN reasons |-> PyStr(reasons[i])])),
                                Item("references",
                                     PyList([i \in DOMAIN references |-> PyStr(references[i])])) >>
             IN  [verdict |-> verdict, reason |-> reasons[1],
                  evidence |-> announcement_evidence(title, company_hint, link_arg, official, ts)]

(***************************************************************************)
(* Verification of one announcement                                        *)
(***************************************************************************)
Regulator(name, url) == [name |-> name, url |-> url]

Pharma ==
    Item("pharma", [keywords |-> << <<"F","D","A">>, <<"d","r","u","g">> >>,
                    regulators |-> << Regulator("FDA", "https://www.fda.gov"),
                                      Regulator("CDSCO", "https://cdsco.gov.in") >>])

Banking ==
    Item("banking", [keywords |-> << <<"b","a","n","k">> >>,
                     regulators |-> << Regulator("RBI", "https://www.rbi.org.in"),
                                       Regulator("SEBI", "https://www.sebi.gov.in") >>])

Securities ==
    Item("securities", [keywords |-> << <<"I","P","O">>, <<"s","e","b","i">> >>,
                        regulators |-> << Regulator("SEBI", "https://www.sebi.gov.in"),
                                          Regulator("NSE", "https://www.nseindia.com") >>])

\* a domain whose entry has no keywords
Unkeyed ==
    Item("energy", [regulators |-> << Regulator("CERC", "https://cercind.gov.in") >>])

\* a domain whose entry lists no regulator
Unlisted == Item("crypto", [keywords |-> << <<"t","o","k","e","n">> >>, regulators |-> <<>>])

\* regulator maps; the empty one is also what a failed load leaves
RegMaps == { <<Pharma, Banking, Securities>>, <<Securities, Banking, Pharma>>,
             <<Unkeyed, Unlisted, Securities>>, <<>> }

Titles == { PyText(<<"N","o","v","a","p","h","a","r","m"," ","w","i","n","s"," ","F","D","A"," ","n","o","d">>), PyText(<<"N","O","V","A","P","H","A","R","M"," ","Q","2"," ","r","e","s","u","l","t","s">>),
            PyText(<<"N","e","w"," ","d","r","u","g"," ","l","a","u","n","c","h">>), PyText(<<"B","a","n","k"," ","I","P","O"," ","c","l","e","a","r","e","d"," ","b","y"," ","S","E","B","I">>),
            PyText(<<"Q","u","a","r","t","e","r","l","y"," ","r","e","s","u","l","t","s">>), PyText(<<"T","o","k","e","n"," ","a","i","r","d","r","o","p">>), PyText(<<>>) }

Hints == { PyText(<<>>), PyText(<<"N","o","v","a","p","h","a","r","m">>) }

Links == { PyNone, PyText(<<>>), PyText(<<"h","t","t","p","s",":","/","/","f","d","a",".","g","o","v","/","a">>) }

\* values of int(time.time())
Times == { 1, 2 }

AnnInit ==
    /\ reg_map \in RegMaps
    /\ ann_title \in Titles
    /\ ann_hint \in Hints
    /\ ann_link \in Links
    /\ ann_out = EmptyDict

AnnIdle ==
    /\ reg_map = <<>>
    /\ ann_title = PyText(<<>>)
    /\ ann_hint = PyText(<<>>)
    /\ ann_link = PyNone
    /\ ann_out = EmptyDict

\* verify_announcement(ann_title, ann_hint, ann_link)
VerifyAnnouncement ==
    /\ ann_out = EmptyDict
    /\ \E ts \in Times :
           ann_out' = verify_announcement(ann_title, ann_hint, ann_link, ts, reg_map)
    /\ UNCHANGED <<reg_map, ann_title, ann_hint, ann_link, scoreVars, idVars, anomVars,
                   contraVars, tipVars, hashVars, vaultVars, docVars, geminiVars, lookupVars, regMapVars, crewVars>>

(***************************************************************************)
(* Content hash of two payloads                                            *)
(***************************************************************************)
MaxItems == 2

HashKeys == { "a", "b", "c" }

\* field values; the two dicts differ in the order of insertion only
HashValues == { PyInt(1), PyStr("x"),
                PyDict(<< Item("a", PyInt(1)), Item("b", PyInt(2)) >>),
                PyDict(<< Item("b", PyInt(2)), Item("a", PyInt(1)) >>) }

RECURSIVE Payloads(_)
\* the dicts of at most n items, in every order of insertion
Payloads(n) ==
    IF n = 0 THEN { <<>> }
    ELSE LET smaller == Payloads(n - 1)
         IN  smaller \cup
             UNION { { Append(q, Item(k, v)) : k \in HashKeys \ ItemKeys(q), v \in HashValues }
                     : q \in smaller }

\* the second payload has the keys of the first, in any order, and at most
\* one value written differently
HashInit ==
    /\ pay_a \in Payloads(MaxItems)
    /\ pay_b \in { q \in Payloads(MaxItems) :
                     /\ ItemKeys(q) = ItemKeys(pay_a)
                     /\ Cardinality({ k \in ItemKeys(q) :
                                        ItemValue(q, k) # ItemValue(pay_a, k) }) <= 1 }
    /\ hash_a = EmptyDict
    /\ hash_b = EmptyDict

HashIdle ==
    /\ pay_a = <<>>
    /\ pay_b = <<>>
    /\ hash_a = EmptyDict
    /\ hash_b = EmptyDict

\* hash_payload(pay_a)
HashFirst ==
    /\ hash_a = EmptyDict
    /\ hash_a' = hash_payload(pay_a)
    /\ UNCHANGED <<pay_a, pay_b, hash_b, scoreVars, idVars, anomVars, contraVars,
                   tipVars, annVars, vaultVars, docVars, geminiVars, lookupVars, regMapVars, crewVars>>

\* hash_payload(pay_b)
HashSecond ==
    /\ hash_b = EmptyDict
    /\ hash_b' = hash_payload(pay_b)
    /\ UNCHANGED <<pay_a, pay_b, hash_a, scoreVars, idVars, anomVars, contraVars,
                   tipVars, annVars, vaultVars, docVars, geminiVars, lookupVars, regMapVars, crewVars>>

(***************************************************************************)
(* Evidence cases of the pages and ui/components/helpers.py: save_evidence *)
(***************************************************************************)
PyBool(b) == [py_bool |-> b]

\* the dict that verify_announcement returns, as a JSON value
announcement_result(res) ==
    PyDict(<< Item("verdict", PyStr(res.verdict)), Item("reason", PyStr(res.reason)),
              Item("evidence", PyDict(res.evidence)) >>)

\* breakdown.to_dict(orient="records")
breakdown_records(df) ==
    PyList([i \in DOMAIN df |->
                PyDict(<< Item("Dimension", PyStr(df[i].Dimension)),
                          Item("Contribution", PyInt(df[i].Contribution)),
                          Item("Why", PyStr(df[i].Why)) >>)])

\* the evidence dict of the Document Verifier page for pasted text: no URL,
\* no upload, no identifier in the text, no entity match, the optional
\* social, anomaly and contradiction modules not importable
document_evidence(ts, text, off) ==
    LET sig == ("lookup" :> [found |-> FALSE, reason |-> "no entity match"])
               @@ ("url" :> EmptyDict)
               @@ ("official" :> [verdict |-> off.verdict, reason |-> off.reason])
               @@ ("identifiers" :> EmptyDict)
               @@ ("text_len" :> Len(text))
               @@ ("social" :> EmptyDict)
               @@ ("anomaly" :> EmptyDict)
               @@ ("contra" :> EmptyDict)
        scored == score_from_signals(sig)
    IN  << Item("ts", PyInt(ts)),
           Item("url", PyText(<<>>)),
           Item("upload_meta", PyDict(<<>>)),
           Item("lookup", PyDict(<< Item("found", PyBool(FALSE)),
                                    Item("reason", PyStr("no entity match")) >>)),
           Item("url_hygiene", PyDict(<<>>)),
           Item("official", announcement_result(off)),
           Item("identifiers", PyDict(<< Item("text_found", PyDict(<<>>)),
                                         Item("registry", PyDict(<<>>)) >>)),
           Item("social", PyDict(<<>>)),
           Item("anomaly", PyDict(<<>>)),
           Item("contra", PyDict(<<>>)),
           Item("score", PyInt(scored.total)),
           Item("breakdown", breakdown_records(scored.df)),
           Item("text_snippet", PyText(text)),
           Item("ai_explanation", PyStr("")) >>

\* the evidence dict of _analyze_claim for a question q that is no link: no
\* entity match, no crew sweep, verify the result of verify_announcement(q)
chat_evidence(q, verify) ==
    << Item("query", PyText(q)),
       Item("verdict", PyStr(verify.verdict)),
       Item("reasons", PyList(<<PyStr(verify.reason)>>)),
       Item("references", PyList(<<>>)),
       Item("entity", PyDict(<<>>)),
       Item("who_confirmed", PyList(<<>>)),
       Item("who_silent", PyList(<< PyStr("https://www.sebi.gov.in/"),
                                    PyStr("https://www.nseindia.com/"),
                                    PyStr("https://www.bseindia.com/") >>)),
       Item("history_flags", PyDict(<<>>)),
       Item("crew_used", PyBool(FALSE)),
       Item("crew_payload", PyDict(<<>>)) >>

\* get_supabase(write=True): a client, or None without url or key and when
\* create_client raises
get_supabase(config) == IF config = "ready" THEN [client |-> TRUE] ELSE PyNone

\* save_evidence that inserts a second time when the first insert fails
save_evidence_mut_retry(case, sb, outcome, rows) ==
    IF IsNone(sb)
    THEN [out |-> [error |-> "no_supabase"], rows |-> rows, attempts |-> 0]
    ELSE LET row == [payload |-> case]
         IN  IF outcome = "inserted"
             THEN [out |-> [ok |-> TRUE, data |-> <<row>>],
                   rows |-> Append(rows, row), attempts |-> 1]
             ELSE [out |-> [ok |-> TRUE, data |-> <<row>>],
                   rows |-> Append(rows, row), attempts |-> 2]

\* save_evidence(case): sb the client or None, outcome what execute() does,
\* rows the table before the call; the return value, the table after the
\* call and the number of inserts executed
save_evidence(case, sb, outcome, rows) ==
    IF IsNone(sb)
    THEN [out |-> [error |-> "no_supabase"], rows |-> rows, attempts |-> 0]
    ELSE LET row == [payload |-> case]
         IN  IF outcome = "inserted"
             THEN [out |-> [ok |-> TRUE, data |-> <<row>>],
                   rows |-> Append(rows, row), attempts |-> 1]
             ELSE [out |-> [error |-> "insert failed"], rows |-> rows, attempts |-> 1]

(***************************************************************************)
(* Analyses of the pages and saves to the evidence vault                   *)
(***************************************************************************)
MaxSaves == 3

Pages == { "fetch", "document", "chat" }

VaultTexts == { <<"N","e","w"," ","d","r","u","g"," ","l","a","u","n","c","h">>, <<"N","o","v","a","p","h","a","r","m"," ","w","i","n","s"," ","F","D","A"," ","n","o","d">> }

SupabaseConfigs == { "missing", "client_error", "ready" }

\* execute() returns the inserted row or raises
InsertOutcomes == { "inserted", "raised" }

VaultInit ==
    /\ cases = [p \in Pages |-> <<>>]
    /\ sb_config \in SupabaseConfigs
    /\ store = <<>>
    /\ save_calls = 0
    /\ save_out = EmptyDict
    /\ insert_attempts = 0

VaultIdle ==
    /\ cases = [p \in Pages |-> <<>>]
    /\ sb_config = "missing"
    /\ store = <<>>
    /\ save_calls = 0
    /\ save_out = EmptyDict
    /\ insert_attempts = 0

\* fetch_ingest.render: res = verify_announcement(query_text, company or "",
\* url or ""), evidence = res.get("evidence")
FetchIngestAnalysis ==
    /\ cases["fetch"] = <<>>
    /\ \E text \in VaultTexts, ts \in Times :
           cases' = [cases EXCEPT !["fetch"] =
                        verify_announcement(PyText(text), PyText(<<>>), PyText(<<>>),
                                            ts, reg_map).evidence]
    /\ UNCHANGED <<sb_config, store, save_calls, save_out, insert_attempts, scoreVars,
                   idVars, anomVars, contraVars, tipVars, annVars, hashVars, docVars, geminiVars, lookupVars, regMapVars, crewVars>>

\* document_verifier.render, steps 1 to 10
DocumentVerifierAnalysis ==
    /\ cases["document"] = <<>>
    /\ \E text \in VaultTexts, ts \in Times, later \in Times :
           /\ ts <= later
           /\ cases' = [cases EXCEPT !["document"] =
                  document_evidence(later, text,
                      verify_announcement(PyText(text), PyText(<<>>), PyText(<<>>),
                                          ts, reg_map))]
    /\ UNCHANGED <<sb_config, store, save_calls, save_out, insert_attempts, scoreVars,
                   idVars, anomVars, contraVars, tipVars, annVars, hashVars, docVars, geminiVars, lookupVars, regMapVars, crewVars>>

\* chat._analyze_claim(q)
ChatAnalysis ==
    /\ cases["chat"] = <<>>
    /\ \E q \in VaultTexts, ts \in Times :
           cases' = [cases EXCEPT !["chat"] =
                        chat_evidence(q, verify_announcement(PyText(q), PyText(<<>>),
                                                             PyNone, ts, reg_map))]
    /\ UNCHANGED <<sb_config, store, save_calls, save_out, insert_attempts, scoreVars,
                   idVars, anomVars, contraVars, tipVars, annVars, hashVars, docVars, geminiVars, lookupVars, regMapVars, crewVars>>

\* the save button of a page: save_evidence(evidence)
SaveEvidence ==
    /\ save_calls < MaxSaves
    /\ \E page \in Pages, outcome \in InsertOutcomes :
           /\ cases[page] # <<>>
           /\ LET r == save_evidence(cases[page], get_supabase(sb_config), outcome, store)
              IN  /\ store' = r.rows
                  /\ save_out' = r.out
                  /\ insert_attempts' = r.attempts
    /\ save_calls' = save_calls + 1
    /\ UNCHANGED <<cases, sb_config, scoreVars, idVars, anomVars, contraVars, tipVars,
                   annVars, hashVars, docVars, geminiVars, lookupVars, regMapVars, crewVars>>

(***************************************************************************)
(* ui/pages/document_verifier.py: extract_identifiers                      *)
(*                                                                         *)
(* pattern.search(text) returns [group |-> <matched str>], or None.        *)
(***************************************************************************)
\* \w of a str pattern
WordChars == UpperLetters \cup LowerLetters \cup Digits \cup { "_", KelvinSign }

IsWordAt(s, i) == i \in DOMAIN s /\ s[i] \in WordChars

\* \b just before position i
WordBoundary(s, i) == IsWordAt(s, i - 1) # IsWordAt(s, i)

\* LEI_RE = \b[A-Z0-9]{18}[0-9]{2}\b, re.I
DV_LEI_RE == Rep(UpperAlnum, 18) \o Rep(Digits, 2)

\* an ISIN pattern that ends in any alphanumeric character
DV_ISIN_RE_mut_alnum == Rep(UpperLetters, 2) \o Rep(UpperAlnum, 10)

\* ISIN_RE = \b[A-Z]{2}[A-Z0-9]{9}[0-9]\b, re.I
DV_ISIN_RE == Rep(UpperLetters, 2) \o Rep(UpperAlnum, 9) \o Rep(Digits, 1)

\* CIN_RE = \b[LUAP][0-9]{5}[A-Z]{2}[0-9]{4}[A-Z]{3}[0-9]{6}\b, re.I
DV_CIN_RE ==
    Rep({"L", "U", "A", "P"}, 1) \o Rep(Digits, 5) \o Rep(UpperLetters, 2)
    \o Rep(Digits, 4) \o Rep(UpperLetters, 3) \o Rep(Digits, 6)

\* pattern.search(text) for a pattern \b c1...cn \b under re.I: the leftmost
\* match
search_bounded(pat, text) ==
    LET n == Len(pat)
        starts == { i \in 1..(Len(text) - n + 1) :
                        /\ WordBoundary(text, i)
                        /\ WordBoundary(text, i + n)
                        /\ BodyMatch(pat, SubSeq(text, i, i + n - 1), TRUE) }
    IN  IF starts = {} THEN PyNone
        ELSE LET i == CHOOSE x \in starts : \A y \in starts : x <= y
             IN  [group |-> SubSeq(text, i, i + n - 1)]

RECURSIVE Run(_, _, _, _)
\* the number of characters of the class that follow each other from p on
Run(class, s, p, ic) ==
    IF p \in DOMAIN s /\ ClassMatch(class, s[p], ic)
    THEN 1 + Run(class, s, p + 1, ic) ELSE 0

\* (SEBI|REG|REGN|REGISTRATION)
SEBI_LABELS == << <<"S","E","B","I">>, <<"R","E","G">>, <<"R","E","G","N">>,
                  <<"R","E","G","I","S","T","R","A","T","I","O","N">> >>

\* [\s\-]
SEBI_GAP == Whitespace \cup { "-" }

\* [0-9A-Z\-]
SEBI_TOKEN == UpperAlnum \cup { "-" }

LabelAt(w, s, i) ==
    /\ i + Len(w) - 1 <= Len(s)
    /\ \A j \in DOMAIN w : ClassMatch({ w[j] }, s[i + j - 1], TRUE)

\* the ways \b(SEBI|REG|REGN|REGISTRATION)\s*:?[\s\-]*([0-9A-Z\-]{4,20})
\* matches from position i: the alternative a, k1 characters of \s*, c of
\* :?, k3 of [\s\-]*, and the start r of group 2
SebiPaths(s, i) ==
    UNION { UNION { UNION { { [a |-> a, k1 |-> k1, c |-> c, k3 |-> k3,
                               r |-> i + Len(SEBI_LABELS[a]) + k1 + c + k3] :
                  k3 \in { k \in 0..Run(SEBI_GAP, s, i + Len(SEBI_LABELS[a]) + k1 + c, FALSE) :
                             Run(SEBI_TOKEN, s, i + Len(SEBI_LABELS[a]) + k1 + c + k, TRUE) >= 4 } } :
              c \in { x \in 0..1 :
                        x = 1 => /\ i + Len(SEBI_LABELS[a]) + k1 \in DOMAIN s
                                 /\ s[i + Len(SEBI_LABELS[a]) + k1] = ":" } } :
          k1 \in 0..Run(Whitespace, s, i + Len(SEBI_LABELS[a]), FALSE) } :
      a \in { x \in DOMAIN SEBI_LABELS : LabelAt(SEBI_LABELS[x], s, i) } }

\* the regex engine tries the alternatives in order and the greedy
\* quantifiers longest first
Preferred(t, u) ==
    \/ t.a < u.a
    \/ t.a = u.a /\ t.k1 > u.k1
    \/ t.a = u.a /\ t.k1 = u.k1 /\ t.c > u.c
    \/ t.a = u.a /\ t.k1 = u.k1 /\ t.c = u.c /\ t.k3 >= u.k3

\* re.search(r"\b(SEBI|REG|REGN|REGISTRATION)\s*:?[\s\-]*([0-9A-Z\-]{4,20})",
\*           text, re.I): group 2 of the match
search_sebi(text) ==
    LET starts == { i \in DOMAIN text : WordBoundary(text, i) /\ SebiPaths(text, i) # {} }
    IN  IF starts = {} THEN PyNone
        ELSE LET i == CHOOSE x \in starts : \A y \in starts : x <= y
                 paths == SebiPaths(text, i)
                 t == CHOOSE x \in paths : \A y \in paths : Preferred(x, y)
                 n == Min(20, Run(SEBI_TOKEN, text, t.r, TRUE))
             IN  [group |-> SubSeq(text, t.r, t.r + n - 1)]

\* extract_identifiers(text)
extract_identifiers(text) ==
    IF text = <<>> THEN EmptyDict
    ELSE LET found == [lei |-> search_bounded(DV_LEI_RE, text),
                       isin |-> search_bounded(DV_ISIN_RE, text),
                       cin |-> search_bounded(DV_CIN_RE, text),
                       sebi |-> search_sebi(text)]
         IN  [k \in { x \in DOMAIN found : ~IsNone(found[x]) } |->
                  StrUpper(found[k].group)]

\* step 5 of document_verifier.render: the registry signal of the identifiers
\* found
render_registry(ids, net) ==
    IF Truthy(ids) THEN bulk_registry_check(ids, net) ELSE EmptyDict

(***************************************************************************)
(* Identifiers of one document                                             *)
(***************************************************************************)
\* what precedes and what follows an identifier in a text
DocLabels == { <<>>, <<"I","S","I","N"," ">>, <<"S","E","B","I",":"," ">>,
               <<"R","e","g"," ","n","o"," ">>, <<"r","e","g","n","-">> }

DocTails == { <<>>, <<".">>, <<"x">>, <<" ","o","k">> }

\* characters that replace the first or the last one of an identifier
DocChars == { KelvinSign, "-", "x" }

DocTokens ==
    IdBases \cup { StrLower(b) : b \in IdBases }
    \cup UNION { { [b EXCEPT ![p] = c] : p \in { 1, Len(b) }, c \in DocChars } : b \in IdBases }

DocTexts == { pre \o tok \o post : pre \in DocLabels, tok \in DocTokens, post \in DocTails }

DocInit ==
    /\ doc_text \in DocTexts
    /\ doc_net \in NetOutcomes
    /\ doc_stage = "text"
    /\ doc_ids = EmptyDict
    /\ doc_reg = EmptyDict

DocIdle ==
    /\ doc_text = <<>>
    /\ doc_net = "ok"
    /\ doc_stage = "idle"
    /\ doc_ids = EmptyDict
    /\ doc_reg = EmptyDict

\* ids = extract_identifiers(combined_text)
ExtractIdentifiers ==
    /\ doc_stage = "text"
    /\ doc_ids' = extract_identifiers(doc_text)
    /\ doc_stage' = "extracted"
    /\ UNCHANGED <<doc_text, doc_net, doc_reg, scoreVars, idVars, anomVars, contraVars, tipVars, annVars, hashVars, vaultVars, geminiVars, lookupVars, regMapVars, crewVars>>

\* reg = bulk_registry_check(ids) when ids is not empty
RegistryValidate ==
    /\ doc_stage = "extracted"
    /\ doc_reg' = render_registry(doc_ids, doc_net)
    /\ doc_stage' = "checked"
    /\ UNCHANGED <<doc_text, doc_net, doc_ids, scoreVars, idVars, anomVars, contraVars, tipVars, annVars, hashVars, vaultVars, geminiVars, lookupVars, regMapVars, crewVars>>

(***************************************************************************)
(* ui/components/helpers.py: gemini_explain                                *)
(*                                                                         *)
(* A text is the sequence of its pieces: the literals of the f-strings,    *)
(* the interpolated values and the separators.                             *)
(***************************************************************************)
RECURSIVE Join(_, _)
\* sep.join(lines)
Join(sep, lines) ==
    IF lines = <<>> THEN <<>>
    ELSE IF Len(lines) = 1 THEN lines[1]
    ELSE lines[1] \o <<sep>> \o Join(sep, Tail(lines))

RECURSIVE dict_fromkeys(_)
\* list(dict.fromkeys(l)): the first occurrence of every element, in order
dict_fromkeys(l) ==
    IF l = <<>> THEN <<>>
    ELSE LET front == dict_fromkeys(SubSeq(l, 1, Len(l) - 1))
         IN  IF \E i \in DOMAIN front : front[i] = l[Len(l)]
             THEN front ELSE Append(front, l[Len(l)])

\* l[:n]
Head6(l) == SubSeq(l, 1, Min(6, Len(l)))

\* _format_explanation(verdict_text, reasons, references, lookup)
format_explanation(verdict_text, reasons, references, lookup) ==
    LET sites == IF IsNone(lookup) THEN <<>> ELSE Get(lookup, "official_sites", <<>>)
        refs == IF sites # <<>> THEN dict_fromkeys(references \o sites) ELSE references
    IN  Join("\n",
             << <<"**Verdict:** ", verdict_text>> >>
             \o (IF reasons # <<>>
                 THEN << <<"**Reasons:**">> >>
                      \o [i \in DOMAIN Head6(reasons) |-> <<"- ", Head6(reasons)[i]>>]
                 ELSE <<>>)
             \o (IF refs # <<>>
                 THEN << <<"**References:**">> >>
                      \o [i \in DOMAIN Head6(refs) |-> <<"- ", Head6(refs)[i]>>]
                 ELSE <<>>))

\* what requests.post and resp.json() give: shape is "raises" (no response),
\* "invalid_json", "no_candidates" or "candidates"
Reply(status, shape, text) == [status_code |-> status, shape |-> shape, text |-> text]

\* gemini_explain that reports a failed call instead of falling back
gemini_explain_mut_apology(context, key, reply) ==
    LET fallback == format_explanation(context.verdict_text, context.reasons,
                                       context.references, context.lookup)
    IN  IF ~key THEN fallback
        ELSE IF reply.shape = "raises" THEN fallback
        ELSE IF reply.status_code # 200 THEN <<"AI explanation unavailable.">>
        ELSE IF reply.shape # "candidates" THEN fallback
        ELSE LET llm_text == Strip(reply.text)
             IN  fallback \o (IF llm_text # <<>> THEN <<"\n\n">> \o llm_text ELSE <<>>)

\* gemini_explain(context), key: GEMINI_API_KEY is set
gemini_explain(context, key, reply) ==
    LET fallback == format_explanation(context.verdict_text, context.reasons,
                                       context.references, context.lookup)
    IN  IF ~key THEN fallback
        ELSE IF reply.shape = "raises" THEN fallback          \* except Exception
        ELSE IF reply.status_code # 200 THEN fallback
        ELSE IF reply.shape # "candidates" THEN fallback      \* except Exception
        ELSE LET llm_text == Strip(reply.text)
             IN  fallback \o (IF llm_text # <<>> THEN <<"\n\n">> \o llm_text ELSE <<>>)

(***************************************************************************)
(* Explanation of one verdict                                              *)
(***************************************************************************)
MaxListed == 7

ReasonPool == <<"No official match via lightweight search", "URL looks official",
                "Neutral baseline", "No curated match", "Classified as legit",
                "OCR/Text extracted successfully", "Outlier vs history (demo rule)",
                "Found in data/lookup.json">>

ReferencePool == <<"https://www.sebi.gov.in/", "https://www.nseindia.com/",
                   "https://www.bseindia.com/", "https://www.fda.gov/",
                   "https://www.rbi.org.in/", "https://www.gleif.org/",
                   "https://www.mca.gov.in/", "https://www.cdsco.gov.in/">>

ReasonLists == { SubSeq(ReasonPool, 1, n) : n \in { 0, 1, 6, MaxListed } }

ReferenceLists ==
    { SubSeq(ReferencePool, 1, n) : n \in { 0, 2, MaxListed } }
    \cup { <<ReferencePool[1], ReferencePool[1]>> }

GeminiLookups ==
    { PyNone, [found |-> TRUE, official_sites |-> <<>>],
      [found |-> TRUE, official_sites |-> <<ReferencePool[2], ReferencePool[4]>>] }

GeminiContexts ==
    [claim : { <<"Novapharm wins FDA nod">> },
     verdict_text : { "unverified", "Credibility score: 42/100" },
     lookup : GeminiLookups, reasons : ReasonLists, references : ReferenceLists]

GeminiReplies ==
    { Reply(0, "raises", <<>>), Reply(500, "invalid_json", <<>>),
      Reply(429, "candidates", <<"quota">>), Reply(200, "invalid_json", <<>>),
      Reply(200, "no_candidates", <<>>), Reply(200, "candidates", <<" ", "\n">>),
      Reply(200, "candidates", <<" ", "Unverified until a regulator link is seen.", "\n">>) }

GeminiInit ==
    /\ gem_context \in GeminiContexts
    /\ gem_key \in BOOLEAN
    /\ gem_reply \in GeminiReplies
    /\ gem_out = EmptyDict

GeminiIdle ==
    /\ gem_context = EmptyDict
    /\ gem_key = FALSE
    /\ gem_reply = EmptyDict
    /\ gem_out = EmptyDict

\* gemini_explain(gem_context)
GeminiExplain ==
    /\ gem_out = EmptyDict
    /\ gem_out' = [text |-> gemini_explain(gem_context, gem_key, gem_reply)]
    /\ UNCHANGED <<gem_context, gem_key, gem_reply, scoreVars, idVars, anomVars, contraVars, tipVars, annVars, hashVars, vaultVars, docVars, lookupVars, regMapVars, crewVars>>

(***************************************************************************)
(* ui/components/helpers.py: lookup_entity                                 *)
(*                                                                         *)
(* data/lookup.json is [state |-> "missing"], [state |-> "unreadable"] (it *)
(* cannot be opened or parsed) or [state |-> "loaded", db |-> <items>],    *)
(* the items in file order.  A record of the registry is a function from   *)
(* its keys to JSON values; names and aliases are sequences of characters. *)
(***************************************************************************)
\* rec.get(k), None for a missing key
RecGet(rec, k) == IF k \in DOMAIN rec THEN rec[k] ELSE PyNone

\* (a or b) over JSON values: None, "" and [] are falsy
PyOr(a, b) == IF IsNone(a) \/ a = PyList(<<>>) \/ a = PyStr("") THEN b ELSE a

\* [name] + rec.get("aliases", [])
entity_aliases(name, rec) ==
    <<name>> \o (IF "aliases" \in DOMAIN rec THEN rec["aliases"] ELSE <<>>)

\* the dict returned for a matching entity
entity_hit(name, rec) ==
    [found |-> TRUE,
     entity |-> name,
     domain |-> RecGet(rec, "domain"),
     source |-> PyOr(PyOr(RecGet(rec, "source"), RecGet(rec, "registry")), PyStr("registry")),
     id |-> PyOr(PyOr(PyOr(RecGet(rec, "LEI"), RecGet(rec, "ISIN")), RecGet(rec, "SEBI")),
                 RecGet(rec, "CIN")),
     valid_till |-> RecGet(rec, "valid_till"),
     official_sites |-> IF "official_sites" \in DOMAIN rec
                        THEN rec["official_sites"] ELSE PyList(<<>>),
     raw |-> rec]

RECURSIVE entity_loop_mut_cased(_, _)
\* the loop that compares the aliases as they are written
entity_loop_mut_cased(db, claim_l) ==
    IF db = <<>> THEN [found |-> FALSE, reason |-> <<"no entity match">>]
    ELSE LET aliases == entity_aliases(db[1].key, db[1].value)
         IN  IF \E i \in DOMAIN aliases : Contains(aliases[i], claim_l)
             THEN entity_hit(db[1].key, db[1].value)
             ELSE entity_loop_mut_cased(Tail(db), claim_l)

RECURSIVE entity_loop(_, _)
\* for name, rec in db.items(): return the first entity with an alias in
\* the claim
entity_loop(db, claim_l) ==
    IF db = <<>> THEN [found |-> FALSE, reason |-> <<"no entity match">>]
    ELSE LET aliases == entity_aliases(db[1].key, db[1].value)
         IN  IF \E i \in DOMAIN aliases : Contains(StrLower(aliases[i]), claim_l)
             THEN entity_hit(db[1].key, db[1].value)
             ELSE entity_loop(Tail(db), claim_l)

\* lookup_entity(claim) with data/lookup.json as file
lookup_entity(claim, file) ==
    IF file.state = "missing"
    THEN [found |-> FALSE, reason |-> <<"lookup.json not present">>]
    ELSE IF file.state = "unreadable"
    THEN [found |-> FALSE, reason |-> <<"lookup error: ", "Expecting value">>]
    ELSE entity_loop(file.db, StrLower(OrBlank(claim)))

(***************************************************************************)
(* Lookup of one claim                                                     *)
(***************************************************************************)
MaxEntities == 3

EntityTcs ==
    Item(<<"T","C","S">>,
         ("aliases" :> << <<"T","a","t","a"," ","C","o","n","s","u","l","t","a","n","c","y">> >>)
         @@ ("ISIN" :> PyStr("INE467B01029")) @@ ("domain" :> PyStr("it"))
         @@ ("official_sites" :> PyList(<<PyStr("https://www.tcs.com/")>>)))

EntityTata ==
    Item(<<"T","a","t","a">>,
         ("LEI" :> PyStr("335800LWS9VQ9O3HU319")) @@ ("CIN" :> PyStr("L28920MH1945PLC004520"))
         @@ ("domain" :> PyStr("auto")) @@ ("registry" :> PyStr("gleif"))
         @@ ("valid_till" :> PyStr("2026-03-31")))

EntityNovapharm ==
    Item(<<"N","o","v","a","p","h","a","r","m">>,
         ("aliases" :> << <<"N","O","V","A">>, <<"n","o","v","a","p","h","a","r","m"," ","l","t","d">> >>)
         @@ ("SEBI" :> PyStr("INA000001234")) @@ ("CIN" :> PyStr("U24230MH2010PLC123456"))
         @@ ("source" :> PyStr("curated"))
         @@ ("official_sites" :> PyList(<<>>)))

Entities == { EntityTcs, EntityTata, EntityNovapharm }

RECURSIVE Orders(_, _)
\* the sequences of at most n distinct elements of S
Orders(S, n) ==
    IF n = 0 THEN { <<>> }
    ELSE { <<>> } \cup UNION { { <<e>> \o t : t \in Orders(S \ { e }, n - 1) } : e \in S }

LookupFiles ==
    { [state |-> "missing"], [state |-> "unreadable"] }
    \cup { [state |-> "loaded", db |-> db] : db \in Orders(Entities, MaxEntities) }

LookupClaims ==
    { PyNone, PyText(<<>>), PyText(<<"T","C","S">>), PyText(<<"t","c","s"," ","w","i","n","s"," ","d","e","a","l">>),
      PyText(<<"T","A","T","A"," ","C","O","N","S","U","L","T","A","N","C","Y"," ","Q","2">>), PyText(<<"T","a","t","a"," ","M","o","t","o","r","s"," ","r","e","c","a","l","l">>),
      PyText(<<"I","s"," ","N","o","v","a","p","h","a","r","m"," ","l","t","d"," ","t","i","e","d"," ","t","o"," ","T","a","t","a","?">>), PyText(<<"n","o","v","a">>),
      PyText(<<"B","a","n","k"," ","I","P","O"," ","c","l","e","a","r","e","d">>) }

LookupInit ==
    /\ lk_claim \in LookupClaims
    /\ lk_file \in LookupFiles
    /\ lk_out = EmptyDict

LookupIdle ==
    /\ lk_claim = PyNone
    /\ lk_file = [state |-> "missing"]
    /\ lk_out = EmptyDict

\* lookup_entity(lk_claim)
LookupEntity ==
    /\ lk_out = EmptyDict
    /\ lk_out' = lookup_entity(lk_claim, lk_file)
    /\ UNCHANGED <<lk_claim, lk_file, scoreVars, idVars, anomVars, contraVars, tipVars, annVars, hashVars, vaultVars, docVars, geminiVars, regMapVars, crewVars>>

(***************************************************************************)
(* ui/components/helpers.py: load_regulator_map                            *)
(*                                                                         *)
(* config/regulator_map.json is [state |-> "missing"], [state |->          *)
(* "invalid"] (it cannot be parsed) or [state |-> "loaded", map |->        *)
(* <items>].  The call returns [ret, cache, opened]: the value returned,   *)
(* the new value of _G_REG_MAP and whether the file was opened.            *)
(***************************************************************************)
\* load_regulator_map that caches only a map with entries
load_regulator_map_mut_truthy(cache, file) ==
    IF ~IsNone(cache) /\ cache # PyDict(<<>>)
    THEN [ret |-> cache, cache |-> cache, opened |-> FALSE]
    ELSE LET loaded == IF file.state = "loaded" THEN PyDict(file.map) ELSE PyDict(<<>>)
         IN  [ret |-> loaded, cache |-> loaded, opened |-> TRUE]

\* load_regulator_map() with _G_REG_MAP = cache
load_regulator_map(cache, file) ==
    IF ~IsNone(cache)
    THEN [ret |-> cache, cache |-> cache, opened |-> FALSE]
    ELSE LET loaded == IF file.state = "loaded" THEN PyDict(file.map)
                       ELSE PyDict(<<>>)       \* except Exception
         IN  [ret |-> loaded, cache |-> loaded, opened |-> TRUE]

(***************************************************************************)
(* The regulator map over the calls of one process                         *)
(***************************************************************************)
MaxLoads == 4

RegMapFiles ==
    { [state |-> "missing"], [state |-> "invalid"] }
    \cup { [state |-> "loaded", map |-> rm] : rm \in RegMaps }

RegMapInit ==
    /\ rm_file \in RegMapFiles
    /\ G_REG_MAP = PyNone
    /\ rm_calls = 0
    /\ rm_opens = 0
    /\ rm_first = PyNone
    /\ rm_ret = PyNone

RegMapIdle ==
    /\ rm_file = [state |-> "missing"]
    /\ G_REG_MAP = PyNone
    /\ rm_calls = 0
    /\ rm_opens = 0
    /\ rm_first = PyNone
    /\ rm_ret = PyNone

\* load_regulator_map()
LoadRegulatorMap ==
    /\ rm_calls < MaxLoads
    /\ LET call == load_regulator_map(G_REG_MAP, rm_file)
       IN  /\ G_REG_MAP' = call.cache
           /\ rm_ret' = call.ret
           /\ rm_opens' = rm_opens + (IF call.opened THEN 1 ELSE 0)
           /\ rm_first' = IF rm_calls = 0 THEN [file |-> rm_file, ret |-> call.ret]
                          ELSE rm_first
    /\ rm_calls' = rm_calls + 1
    /\ UNCHANGED <<rm_file, scoreVars, idVars, anomVars, contraVars, tipVars, annVars, hashVars, vaultVars, docVars, geminiVars, lookupVars, crewVars>>

\* config/regulator_map.json is written, replaced or removed between calls
RewriteRegulatorMap ==
    /\ rm_calls < MaxLoads
    /\ rm_file' \in RegMapFiles \ { rm_file }
    /\ UNCHANGED <<G_REG_MAP, rm_calls, rm_opens, rm_first, rm_ret, scoreVars, idVars, anomVars, contraVars, tipVars, annVars, hashVars, vaultVars, docVars, geminiVars, lookupVars, crewVars>>

(***************************************************************************)
(* crewai_layer/orchestrator.py: run_credibility_crew                      *)
(*                                                                         *)
(* agent.run(claim, lookup=...) gives [raised |-> <message>], None or a    *)
(* dict; the agents themselves are collaborators.                          *)
(***************************************************************************)
\* the class names of the agents, in the order of the list
AGENTS == <<"EntitySolverAgent", "ExchangeHistoryAgent", "NewsAgent",
            "RegulatorScraperAgent", "DocumentForensicsAgent", "RegistryLookupAgent",
            "NSEScraperAgent", "BSEScraperAgent", "SEBIScraperAgent", "PDFIngestAgent",
            "CSVIngestAgent", "RiskPatternAgent", "GuidanceAgent", "LLMExplainerAgent">>

\* merged = {...}
merged_initial ==
    [verdict_text |-> "unknown", reasons |-> <<>>, references |-> <<>>,
     confirmed_by |-> <<>>, silent_or_missing |-> <<>>, entity_info |-> EmptyDict,
     history_flags |-> EmptyDict, guidance |-> <<>>, agent_errors |-> EmptyDict]

WEAK_VERDICTS == { "unknown", "unverified", "needs_official_link" }

\* merged[k].extend(res[k]) when k is in res
Extended(merged, res, k) == IF k \in DOMAIN res THEN merged[k] \o res[k] ELSE merged[k]

\* d.update(e)
DictUpdate(d, e) == [k \in DOMAIN d \cup DOMAIN e |-> IF k \in DOMAIN e THEN e[k] ELSE d[k]]

\* the merge rules with a verdict rule that overwrites in either mode
merge_rules_mut_overwrite(merged, res, strict) ==
    LET core ==
          [verdict_text |-> IF "verdict" \in DOMAIN res THEN res["verdict"]
                            ELSE merged.verdict_text,
           reasons |-> Extended(merged, res, "reasons"),
           references |-> Extended(merged, res, "references"),
           confirmed_by |-> Extended(merged, res, "confirmed_by"),
           silent_or_missing |-> Extended(merged, res, "silent_or_missing"),
           entity_info |-> IF "entity" \in DOMAIN res /\ ~Truthy(merged.entity_info)
                           THEN res["entity"] ELSE merged.entity_info,
           history_flags |-> IF "history_flags" \in DOMAIN res
                             THEN DictUpdate(merged.history_flags, res["history_flags"])
                             ELSE merged.history_flags,
           guidance |-> Extended(merged, res, "guidance"),
           agent_errors |-> merged.agent_errors]
    IN  IF "ai_explainer" \in DOMAIN res
        THEN core @@ [ai_explainer |-> res["ai_explainer"]]
        ELSE IF "ai_explainer" \in DOMAIN merged
        THEN core @@ [ai_explainer |-> merged.ai_explainer]
        ELSE core

\* the merge rules of one dict result
merge_rules(merged, res, strict) ==
    LET core ==
          [verdict_text |-> IF /\ "verdict" \in DOMAIN res
                               /\ (strict \/ merged.verdict_text \in WEAK_VERDICTS)
                            THEN res["verdict"] ELSE merged.verdict_text,
           reasons |-> Extended(merged, res, "reasons"),
           references |-> Extended(merged, res, "references"),
           confirmed_by |-> Extended(merged, res, "confirmed_by"),
           silent_or_missing |-> Extended(merged, res, "silent_or_missing"),
           entity_info |-> IF "entity" \in DOMAIN res /\ ~Truthy(merged.entity_info)
                           THEN res["entity"] ELSE merged.entity_info,
           history_flags |-> IF "history_flags" \in DOMAIN res
                             THEN DictUpdate(merged.history_flags, res["history_flags"])
                             ELSE merged.history_flags,
           guidance |-> Extended(merged, res, "guidance"),
           agent_errors |-> merged.agent_errors]
    IN  IF "ai_explainer" \in DOMAIN res
        THEN core @@ [ai_explainer |-> res["ai_explainer"]]
        ELSE IF "ai_explainer" \in DOMAIN merged
        THEN core @@ [ai_explainer |-> merged.ai_explainer]
        ELSE core

\* one turn of `for agent in agents` that drops what was merged when the
\* agent raises, and the errors with it
run_agent_mut_reset(merged, agent, res, strict) ==
    IF "raised" \in DOMAIN res THEN merged_initial
    ELSE IF IsNone(res) THEN merged
    ELSE merge_rules(merged, res, strict)

\* one turn of `for agent in agents`: the try block and its except
run_agent(merged, agent, res, strict) ==
    IF "raised" \in DOMAIN res
    THEN [merged EXCEPT !.agent_errors =
              DictUpdate(merged.agent_errors, Sig(agent, res["raised"]))]
    ELSE IF IsNone(res) THEN merged           \* not isinstance(res, dict)
    ELSE merge_rules(merged, res, strict)

\* the deduplication before `return merged`
deduplicate(merged) ==
    [merged EXCEPT !.reasons = dict_fromkeys(merged.reasons),
                   !.references = dict_fromkeys(merged.references),
                   !.confirmed_by = dict_fromkeys(merged.confirmed_by),
                   !.silent_or_missing = dict_fromkeys(merged.silent_or_missing),
                   !.guidance = dict_fromkeys(merged.guidance)]

(***************************************************************************)
(* ui/pages/chat.py: step 3 of _analyze_claim                              *)
(*                                                                         *)
(* The crew is "unavailable" (CREW_OK is false), "broken" (run_crew        *)
(* raises before its loop) or "ready".                                     *)
(***************************************************************************)
\* step 3 that merges the lists of the crew and keeps the baseline verdict
crew_sweep_mut_keep(out, crew, payload) ==
    IF crew = "unavailable" THEN out
    ELSE IF crew = "broken" THEN out
    ELSE [out EXCEPT
              !.crew_used = TRUE,
              !.references = dict_fromkeys(out.references \o payload.references),
              !.reasons = dict_fromkeys(out.reasons \o payload.reasons)]

\* out after step 3, for out after step 2 and the payload of the crew
crew_sweep(out, crew, payload) ==
    IF crew = "unavailable" THEN out
    ELSE IF crew = "broken" THEN out           \* except Exception
    ELSE [out EXCEPT
              !.crew_used = TRUE,
              !.references = dict_fromkeys(out.references \o payload.references),
              !.verdict_text = IF payload.verdict_text # "" THEN payload.verdict_text
                               ELSE out.verdict_text,
              !.reasons = dict_fromkeys(out.reasons \o payload.reasons)]

(***************************************************************************)
(* One sweep of the crew and the chat analysis that uses it                *)
(***************************************************************************)
MaxFaults == 2

MaxReasons == 2

\* verdicts an agent reports; "" stands for an empty or missing one
AgentVerdicts == { "verified", "unverified", "" }

AgentResults ==
    { [raised |-> "timed out"], PyNone, EmptyDict,
      Sig("reasons", <<"Checked exchange filings">>) }
    \cup { Sig("verdict", v) : v \in AgentVerdicts }

BaselineVerdicts == { "verified", "unverified" }

CrewInit ==
    /\ crew_state \in { "unavailable", "broken", "ready" }
    /\ crew_strict \in BOOLEAN
    /\ crew_i = 1
    /\ crew_res = PyNone
    /\ crew_merged = merged_initial
    /\ crew_ran = <<>>
    /\ crew_last = "unknown"
    /\ crew_ret = EmptyDict
    /\ chat_out = EmptyDict

CrewIdle ==
    /\ crew_state = "unavailable"
    /\ crew_strict = FALSE
    /\ crew_i = 1
    /\ crew_res = PyNone
    /\ crew_merged = merged_initial
    /\ crew_ran = <<>>
    /\ crew_last = "unknown"
    /\ crew_ret = EmptyDict
    /\ chat_out = EmptyDict

\* one turn of the loop: agents[crew_i].run(...) and the merge of its result
RunAgent ==
    /\ crew_state = "ready"
    /\ crew_i \in DOMAIN AGENTS
    /\ \E res \in AgentResults :
           /\ "raised" \in DOMAIN res =>
                  Cardinality(DOMAIN crew_merged.agent_errors) < MaxFaults
           /\ "reasons" \in DOMAIN res => Len(crew_merged.reasons) < MaxReasons
           /\ crew_res' = res
           /\ crew_merged' = run_agent(crew_merged, AGENTS[crew_i], res, crew_strict)
           /\ crew_last' = IF "verdict" \in DOMAIN res THEN res["verdict"] ELSE crew_last
    /\ crew_ran' = Append(crew_ran, AGENTS[crew_i])
    /\ crew_i' = crew_i + 1
    /\ UNCHANGED <<crew_state, crew_strict, crew_ret, chat_out, scoreVars, idVars, anomVars, contraVars, tipVars, annVars, hashVars, vaultVars, docVars, geminiVars, lookupVars, regMapVars>>

\* the end of the loop: deduplicate and return merged
ReturnMerged ==
    /\ crew_state = "ready"
    /\ crew_i = Len(AGENTS) + 1
    /\ crew_ret = EmptyDict
    /\ crew_ret' = deduplicate(crew_merged)
    /\ UNCHANGED <<crew_state, crew_strict, crew_i, crew_res, crew_merged, crew_ran,
                   crew_last, chat_out, scoreVars, idVars, anomVars, contraVars, tipVars, annVars, hashVars, vaultVars, docVars, geminiVars, lookupVars, regMapVars>>

\* chat._analyze_claim, steps 2 and 3: the baseline verdict, then the crew,
\* which the chat always runs with strict = True
AnalyzeClaim ==
    /\ chat_out = EmptyDict
    /\ crew_strict
    /\ crew_state = "ready" => crew_ret # EmptyDict
    /\ \E base \in BaselineVerdicts :
           chat_out' = [baseline |-> base,
                        out |-> crew_sweep([verdict_text |-> base, reasons |-> <<>>,
                                            references |-> <<>>, crew_used |-> FALSE],
                                           crew_state, crew_ret)]
    /\ UNCHANGED <<crew_state, crew_strict, crew_i, crew_res, crew_merged, crew_ran,
                   crew_last, crew_ret, scoreVars, idVars, anomVars, contraVars, tipVars, annVars, hashVars, vaultVars, docVars, geminiVars, lookupVars, regMapVars>>

(***************************************************************************)
(* Specifications                                                          *)
(***************************************************************************)
InitScore == ScoreInit /\ IdIdle /\ AnomIdle /\ ContraIdle /\ TipIdle
    /\ AnnIdle /\ HashIdle /\ VaultIdle /\ DocIdle /\ GeminiIdle /\ LookupIdle /\ RegMapIdle /\ CrewIdle

NextScore == CheckDocumentLink \/ Score

SpecScore == InitScore /\ [][NextScore]_vars

InitId == ScoreIdle /\ IdInit /\ AnomIdle /\ ContraIdle /\ TipIdle
    /\ AnnIdle /\ HashIdle /\ VaultIdle /\ DocIdle /\ GeminiIdle /\ LookupIdle /\ RegMapIdle /\ CrewIdle

NextId == RegistryCheck \/ AdvisorEntityCheck

SpecId == InitId /\ [][NextId]_vars

InitAnom == ScoreIdle /\ IdIdle /\ AnomInit /\ ContraIdle /\ TipIdle
    /\ AnnIdle /\ HashIdle /\ VaultIdle /\ DocIdle /\ GeminiIdle /\ LookupIdle /\ RegMapIdle /\ CrewIdle

NextAnom == Detect

SpecAnom == InitAnom /\ [][NextAnom]_vars

InitContra == ScoreIdle /\ IdIdle /\ AnomIdle /\ ContraInit /\ TipIdle
    /\ AnnIdle /\ HashIdle /\ VaultIdle /\ DocIdle /\ GeminiIdle /\ LookupIdle /\ RegMapIdle /\ CrewIdle

NextContra == ComputeRsi \/ ContradictionScore

SpecContra == InitContra /\ [][NextContra]_vars

InitTip == ScoreIdle /\ IdIdle /\ AnomIdle /\ ContraIdle /\ TipInit
    /\ AnnIdle /\ HashIdle /\ VaultIdle /\ DocIdle /\ GeminiIdle /\ LookupIdle /\ RegMapIdle /\ CrewIdle

NextTip == TipVerdict

SpecTip == InitTip /\ [][NextTip]_vars

InitAnn == ScoreIdle /\ IdIdle /\ AnomIdle /\ ContraIdle /\ TipIdle
    /\ AnnInit /\ HashIdle /\ VaultIdle /\ DocIdle /\ GeminiIdle /\ LookupIdle /\ RegMapIdle /\ CrewIdle

NextAnn == VerifyAnnouncement

SpecAnn == InitAnn /\ [][NextAnn]_vars

InitHash == ScoreIdle /\ IdIdle /\ AnomIdle /\ ContraIdle /\ TipIdle
    /\ AnnIdle /\ HashInit /\ VaultIdle /\ DocIdle /\ GeminiIdle /\ LookupIdle /\ RegMapIdle /\ CrewIdle

NextHash == HashFirst \/ HashSecond

SpecHash == InitHash /\ [][NextHash]_vars

InitVault == ScoreIdle /\ IdIdle /\ AnomIdle /\ ContraIdle /\ TipIdle
    /\ AnnIdle /\ HashIdle /\ VaultInit /\ DocIdle /\ GeminiIdle /\ LookupIdle /\ RegMapIdle /\ CrewIdle

NextVault ==
    FetchIngestAnalysis \/ DocumentVerifierAnalysis \/ ChatAnalysis \/ SaveEvidence

SpecVault == InitVault /\ [][NextVault]_vars

InitDoc == ScoreIdle /\ IdIdle /\ AnomIdle /\ ContraIdle /\ TipIdle
    /\ AnnIdle /\ HashIdle /\ VaultIdle /\ DocInit /\ GeminiIdle /\ LookupIdle /\ RegMapIdle /\ CrewIdle

NextDoc == ExtractIdentifiers \/ RegistryValidate

SpecDoc == InitDoc /\ [][NextDoc]_vars

InitGemini == ScoreIdle /\ IdIdle /\ AnomIdle /\ ContraIdle /\ TipIdle
    /\ AnnIdle /\ HashIdle /\ VaultIdle /\ DocIdle /\ GeminiInit /\ LookupIdle /\ RegMapIdle /\ CrewIdle

NextGemini == GeminiExplain

SpecGemini == InitGemini /\ [][NextGemini]_vars

InitLookup == ScoreIdle /\ IdIdle /\ AnomIdle /\ ContraIdle /\ TipIdle
    /\ AnnIdle /\ HashIdle /\ VaultIdle /\ DocIdle /\ GeminiIdle /\ LookupInit /\ RegMapIdle /\ CrewIdle

NextLookup == LookupEntity

SpecLookup == InitLookup /\ [][NextLookup]_vars

InitRegMap == ScoreIdle /\ IdIdle /\ AnomIdle /\ ContraIdle /\ TipIdle
    /\ AnnIdle /\ HashIdle /\ VaultIdle /\ DocIdle /\ GeminiIdle /\ LookupIdle /\ RegMapInit /\ CrewIdle

NextRegMap == LoadRegulatorMap \/ RewriteRegulatorMap

SpecRegMap == InitRegMap /\ [][NextRegMap]_vars

InitCrew == ScoreIdle /\ IdIdle /\ AnomIdle /\ ContraIdle /\ TipIdle
    /\ AnnIdle /\ HashIdle /\ VaultIdle /\ DocIdle /\ GeminiIdle /\ LookupIdle /\ RegMapIdle /\ CrewInit

NextCrew == RunAgent \/ ReturnMerged \/ AnalyzeClaim

SpecCrew == InitCrew /\ [][NextCrew]_vars

(***************************************************************************)
(* Claims about the aggregator (SpecScore)                                 *)
(***************************************************************************)
\* the signal a breakdown row belongs to, by the row's Dimension name
DimOf(name) ==
    CASE name = "Baseline" -> "baseline"
      [] name = "Local Registry Match" -> "lookup"
      [] name \in {"Official Filing Match", "Regulator Suggested"} -> "official"
      [] name \in {"URL Domain Official-ish", "URL Risk (VirusTotal)",
                   "URL Scan Presence"} -> "url"
      [] name = "Identifiers Valid" -> "identifiers"
      [] name = "Text Extracted" -> "text_len"
      [] name = "Social Signal" -> "social"
      [] name = "Numeric Anomaly" -> "anomaly"
      [] name = "Market Contradiction" -> "contra"
      [] OTHER -> "unknown"

\* the nine dimensions of the weight table
Dimensions ==
    {"baseline", "lookup", "official", "url", "identifiers", "text_len",
     "social", "anomaly", "contra"}

\* the rows of one dimension, in order
RowsOf(rows, dim) == SelectSeq(rows, LAMBDA r : DimOf(r.Dimension) = dim)

\* the rows of every other dimension, in order
RowsBut(rows, dim) == SelectSeq(rows, LAMBDA r : DimOf(r.Dimension) # dim)

\* the named signal as a dict ({} when missing)
SigDict(sig, k) == IF k \in DOMAIN sig THEN sig[k] ELSE EmptyDict

HasValidIdentifier(sig) ==
    \E k \in DOMAIN SigDict(sig, "identifiers") :
        LET v == SigDict(sig, "identifiers")[k]
        IN  "pattern_valid" \in DOMAIN v /\ v.pattern_valid

TextLen(sig) == IF "text_len" \in DOMAIN sig THEN sig["text_len"] ELSE 0

Verdict(d) == IF "verdict" \in DOMAIN d THEN d.verdict ELSE "none"

\* the weight table of the scoring model
TablePoints(sig, dim) ==
    CASE dim = "baseline" -> 50
      [] dim = "lookup" ->
           IF "found" \in DOMAIN SigDict(sig, "lookup") /\ SigDict(sig, "lookup").found
           THEN 20 ELSE 0
      [] dim = "official" ->
           IF Verdict(SigDict(sig, "official")) = "verified" THEN 30
           ELSE IF Verdict(SigDict(sig, "official")) = "needs_official_link" THEN 5
           ELSE -5
      [] dim = "url" ->
           IF Verdict(SigDict(sig, "url")) = "likely-official" THEN 10
           ELSE IF Verdict(SigDict(sig, "url")) = "risky" THEN -40
           ELSE IF SigDict(sig, "url") # EmptyDict THEN 2
           ELSE 0
      [] dim = "identifiers" -> IF HasValidIdentifier(sig) THEN 10 ELSE 0
      [] dim = "text_len" -> IF TextLen(sig) > 40 THEN 5 ELSE -3
      [] dim = "social" ->
           IF SigDict(sig, "social") = EmptyDict THEN 0
           ELSE IF SigDict(sig, "social").label = "legit" THEN 5 ELSE -5
      [] dim = "anomaly" ->
           IF "any" \in DOMAIN SigDict(sig, "anomaly") /\ SigDict(sig, "anomaly").any
           THEN -12 ELSE 0
      [] dim = "contra" ->
           IF /\ "contradiction_score" \in DOMAIN SigDict(sig, "contra")
              /\ SigDict(sig, "contra").contradiction_score >= 2
           THEN -8 ELSE 0

TableSum(sig) ==
    TablePoints(sig, "baseline") + TablePoints(sig, "lookup")
    + TablePoints(sig, "official") + TablePoints(sig, "url")
    + TablePoints(sig, "identifiers") + TablePoints(sig, "text_len")
    + TablePoints(sig, "social") + TablePoints(sig, "anomaly")
    + TablePoints(sig, "contra")

\* C1: the total returned by score_from_signals is an integer in [0,100] and
\* equals the sum of the Contribution column of the returned breakdown,
\* clamped to [0,100].
C1_ScoreIsClampedSum ==
    stage = "scored" =>
        /\ score \in 0..100
        /\ LET sum == SumContrib(breakdown)
           IN  score = IF sum < 0 THEN 0 ELSE IF sum > 100 THEN 100 ELSE sum

\* C1 witness: a scored analysis whose rows sum above 100, so the clamp acted
C1_Witness ==
    stage = "scored" /\ SumContrib(breakdown) > 100 /\ score = 100

\* C2 (as claimed): the breakdown holds a row for each of the nine
\* dimensions, whatever the signals are.
C2_AllNineRows ==
    stage = "scored" =>
        \A dim \in Dimensions : Len(RowsOf(breakdown, dim)) = 1

\* C2 (amended): the breakdown always holds exactly one row for each of
\* baseline, local registry, official filing and text extracted, also when
\* that row's contribution is zero or negative; the row of URL domain,
\* identifiers, social signal, numeric anomaly and market contradiction is
\* present (once) exactly when that signal is non-empty and its rule fires,
\* and is skipped otherwise.
C2_RowsPresent ==
    stage = "scored" =>
        /\ \A dim \in {"baseline", "lookup", "official", "text_len"} :
               Len(RowsOf(breakdown, dim)) = 1
        /\ Len(RowsOf(breakdown, "url")) =
               IF SigDict(signals, "url") # EmptyDict THEN 1 ELSE 0
        /\ Len(RowsOf(breakdown, "identifiers")) =
               IF HasValidIdentifier(signals) THEN 1 ELSE 0
        /\ Len(RowsOf(breakdown, "social")) =
               IF SigDict(signals, "social") # EmptyDict THEN 1 ELSE 0
        /\ Len(RowsOf(breakdown, "anomaly")) =
               IF TablePoints(signals, "anomaly") # 0 THEN 1 ELSE 0
        /\ Len(RowsOf(breakdown, "contra")) =
               IF TablePoints(signals, "contra") # 0 THEN 1 ELSE 0
        /\ \A i \in DOMAIN breakdown : DimOf(breakdown[i].Dimension) \in Dimensions

\* C2 witness: a scored analysis without any optional signal: four rows, one
\* of them the zero-point registry row
C2_Witness ==
    /\ stage = "scored"
    /\ Len(breakdown) = 4
    /\ \E i \in DOMAIN breakdown :
           breakdown[i].Dimension = "Local Registry Match" /\ breakdown[i].Contribution = 0
    /\ DOMAIN signals \cap {"url", "social", "anomaly", "contra"} = {}

\* the scenario of C3: no registry match, official verdict unverified, no URL,
\* no identifiers, text length 0 (and no social, anomaly or contradiction signal)
C3_Scenario ==
    /\ "lookup" \in DOMAIN signals /\ ~signals["lookup"].found
    /\ Verdict(SigDict(signals, "official")) = "unverified"
    /\ SigDict(signals, "url") = EmptyDict
    /\ SigDict(signals, "identifiers") = EmptyDict
    /\ "text_len" \in DOMAIN signals /\ signals["text_len"] = 0
    /\ DOMAIN signals \cap {"social", "anomaly", "contra"} = {}

\* C3: every row's contribution is the weight table's value for its
\* dimension, the rows sum to the table's sum, and the scenario scores 42.
C3_WeightTable ==
    stage = "scored" =>
        /\ \A i \in DOMAIN breakdown :
               breakdown[i].Contribution =
                   TablePoints(signals, DimOf(breakdown[i].Dimension))
        /\ SumContrib(breakdown) = TableSum(signals)
        /\ C3_Scenario => score = 42

\* C3 witness: the scenario, scored
C3_Witness == stage = "scored" /\ C3_Scenario /\ score = 42

SignalKeys ==
    {"lookup", "official", "url", "identifiers", "text_len", "social",
     "anomaly", "contra"}

\* sig without the signal k
WithoutSignal(sig, k) == [x \in DOMAIN sig \ {k} |-> sig[x]]

\* C4: a signal never changes another signal's rows.  Stated against the
\* mapping that lacks the signal: for every signal k, the rows of every other
\* dimension are the rows score_from_signals emits for the same mapping
\* without k.  Two mappings that differ in the signal k alone (in its value,
\* or in k being missing, empty or an error value) are the same mapping
\* without k, so their rows for every other dimension are identical; and a
\* score in [0,100] is produced whatever the signal is.
C4_OtherRowsUnaffected ==
    stage = "scored" =>
        /\ score \in 0..100
        /\ \A k \in SignalKeys :
               RowsBut(score_from_signals(WithoutSignal(signals, k)).df, k)
                   = RowsBut(breakdown, k)

\* C4 witness: a scored analysis whose identifiers signal is the error value
\* of a failed registry check and whose other rows include a non-zero one
C4_Witness ==
    /\ stage = "scored"
    /\ "identifiers" \in DOMAIN signals
    /\ "error" \in DOMAIN signals["identifiers"]
    /\ Len(RowsBut(breakdown, "identifiers")) >= 5
    /\ score \in 0..100

\* the link check failed or ran without its collaborators
LinkDegraded ==
    /\ link # EmptyDict
    /\ "url" \in DOMAIN signals
    /\ \/ Verdict(signals["url"]) \in {"invalid", "error"}
       \/ /\ link.url.scheme \in HttpSchemes
          /\ "error" \in DOMAIN link.vt \/ link.vt = NotCalled
          /\ "error" \in DOMAIN link.us

\* C5 (as claimed): the URL row of a degraded link check never adds points.
C5_DegradedLinkNotPositive ==
    (stage = "scored" /\ LinkDegraded) =>
        SumContrib(RowsOf(breakdown, "url")) <= 0

(***************************************************************************)
(* Claims about the identifier validators (SpecId)                         *)
(***************************************************************************)
\* C6: pattern_valid is present in every validator's result and is the same
\* under every outcome of the remote registry call; so are the format flags
\* of advisor_entity_check.
C6_PatternValidIgnoresNetwork ==
    /\ \A k \in DOMAIN id_reg :
          /\ "pattern_valid" \in DOMAIN id_reg[k]
          /\ \A net \in NetOutcomes :
                bulk_registry_check(Sig(k, id_in), net)[k].pattern_valid
                    = id_reg[k].pattern_valid
    /\ id_adv # EmptyDict =>
          \A net \in NetOutcomes :
              LET other == advisor_entity_check(id_in, net)
              IN  /\ other.is_lei_format = id_adv.is_lei_format
                  /\ other.is_cin_format = id_adv.is_cin_format
                  /\ other.is_isin_format = id_adv.is_isin_format
                  /\ other.is_sebi_format = id_adv.is_sebi_format

\* C6 witness: a pattern-valid LEI validated while the GLEIF call timed out
C6_Witness ==
    /\ "lei" \in DOMAIN id_reg
    /\ id_reg["lei"].pattern_valid
    /\ id_net = "timeout"
    /\ "gleif_error" \in DOMAIN id_reg["lei"]

\* C7 (as claimed): whenever the GLEIF call a validator makes yields no
\* record, its result carries the typed error field.
C7_FailedResolutionIsTyped ==
    /\ ("lei" \in DOMAIN id_reg /\ id_reg["lei"].pattern_valid /\ id_net # "ok")
          => "gleif_error" \in DOMAIN id_reg["lei"]
    /\ (id_adv # EmptyDict /\ ~IsNone(id_adv.lei_data) /\ id_net # "ok")
          => "error" \in DOMAIN id_adv.lei_data

\* exactly 20 alphanumeric characters, in either case
IsLeiShape(s) ==
    Len(s) = 20 /\ \A i \in 1..Len(s) : s[i] \in UpperAlnum \cup LowerLetters

Letters == UpperLetters \cup LowerLetters

\* [LUAP] 5 digits, 2 letters, 4 digits, 3 letters, 6 digits, in either case
IsCinShape(s) ==
    /\ Len(s) = 21
    /\ s[1] \in {"L", "U", "A", "P", "l", "u", "a", "p"}
    /\ \A i \in 2..6 : s[i] \in Digits
    /\ \A i \in 7..8 : s[i] \in Letters
    /\ \A i \in 9..12 : s[i] \in Digits
    /\ \A i \in 13..15 : s[i] \in Letters
    /\ \A i \in 16..21 : s[i] \in Digits

\* C8 (as claimed): both LEI validators accept exactly the strings of 20
\* alphanumeric characters, and so agree.
C8_LeiValidatorsAgree ==
    /\ "lei" \in DOMAIN id_reg => id_reg["lei"].pattern_valid = IsLeiShape(id_in)
    /\ id_adv # EmptyDict => id_adv.is_lei_format = IsLeiShape(id_in)
    /\ ("lei" \in DOMAIN id_reg /\ id_adv # EmptyDict)
          => id_reg["lei"].pattern_valid = id_adv.is_lei_format

\* C9 (as claimed): both CIN validators accept exactly the 21-character
\* strings of the corporate-identifier form, and so agree.
C9_CinValidatorsAgree ==
    /\ "cin" \in DOMAIN id_reg => id_reg["cin"].pattern_valid = IsCinShape(id_in)
    /\ id_adv # EmptyDict => id_adv.is_cin_format = IsCinShape(id_in)
    /\ ("cin" \in DOMAIN id_reg /\ id_adv # EmptyDict)
          => id_reg["cin"].pattern_valid = id_adv.is_cin_format

(***************************************************************************)
(* Claims about the anomaly detector (SpecAnom)                            *)
(***************************************************************************)
\* the numerators of the non-null values of a series of whole numbers
RECURSIVE Numbers(_)
Numbers(s) ==
    IF s = <<>> THEN <<>>
    ELSE IF "num" \in DOMAIN s[1] THEN <<s[1].num>> \o Numbers(Tail(s))
    ELSE Numbers(Tail(s))

RECURSIVE IntSum(_)
IntSum(s) == IF s = <<>> THEN 0 ELSE s[1] + IntSum(Tail(s))

\* |latest - m| > t * |m| and m # 0, for m the mean of all values of xs but
\* the last and t = tn/td with td > 0: with k = Len(xs) - 1 values of sum S
\* before the last, m = S/k, and the inequality is |k*latest - S| * td > tn * |S|
DeviatesBeyond(xs, t) ==
    LET k == Len(xs) - 1
        S == IntSum(SubSeq(xs, 1, k))
        latest == xs[Len(xs)]
    IN  S # 0 /\ Abs(k * latest - S) * t.den > t.num * Abs(S)

RatEq(a, b) == a.num * b.den = b.num * a.den

MeanOf(xs) == Rat(IntSum(xs), Len(xs))

LastN(xs, n) == SubSeq(xs, Len(xs) - n + 1, Len(xs))

Returned(out) == out # EmptyDict /\ "raised" \notin DOMAIN out

RECURSIVE Gains(_, _)
\* sum of the rises (sign = 1) or of the falls (sign = -1) over the first k
\* steps of xs
Gains(xs, k) ==
    IF k = 0 THEN [up |-> 0, down |-> 0]
    ELSE LET g == Gains(xs, k - 1)
             d == xs[k + 1] - xs[k]
         IN  [up |-> g.up + Max(d, 0), down |-> g.down + Max(-d, 0)]

\* the 14-period RSI of a series of at least 15 closes: 100 * U / (U + D) for
\* U the rises and D the falls of the first 14 steps, and 0 when D = 0
Rsi14(xs) ==
    LET g == Gains(xs, 14)
    IN  IF g.down = 0 THEN RatInt(0) ELSE Rat(100 * g.up, g.up + g.down)

\* C11: contradiction_score returns as ma20 the mean of all closes exactly
\* when the series has fewer than 20 points (the mean of the last 20
\* otherwise), and as rsi the neutral 50 exactly when the series has fewer
\* than 15 points (the 14-period RSI otherwise).
C11_FallbackThresholds ==
    Returned(contra_out) =>
        LET n == Len(in_prices)
        IN  /\ RatEq(contra_out.ma20,
                     IF n < 20 THEN MeanOf(in_prices) ELSE MeanOf(LastN(in_prices, 20)))
            /\ RatEq(contra_out.rsi, IF n < 15 THEN RatInt(50) ELSE Rsi14(in_prices))

\* C12: contradiction_score never raises on a degenerate series: for the
\* empty series and for every series shorter than the windows it returns
\* ma20, rsi and contradiction_score, with rsi the fallback 50.
C12_NeverRaisesOnShortSeries ==
    (contra_out # EmptyDict /\ Len(in_prices) < 15) =>
        /\ "raised" \notin DOMAIN contra_out
        /\ DOMAIN contra_out = {"ma20", "rsi", "contradiction_score"}
        /\ RatEq(contra_out.rsi, RatInt(50))

NoDownMove(xs) == Len(xs) >= 15 /\ \A i \in 1..14 : xs[i + 1] >= xs[i]

\* C13: when the first 14 deltas hold no negative delta, compute_rsi returns
\* 0 (the ratio is taken as 0) and does not raise.
C13_NoDownMoveGivesZero ==
    (rsi_out # EmptyDict /\ NoDownMove(in_prices)) =>
        /\ DOMAIN rsi_out = {"rsi"}
        /\ RatEq(rsi_out.rsi, RatInt(0))

\* C13 witness: compute_rsi ran on a series that rises and never falls over
\* the window
C13_Witness ==
    /\ rsi_out # EmptyDict
    /\ NoDownMove(in_prices)
    /\ \E i \in 1..14 : in_prices[i + 1] > in_prices[i]
    /\ RatEq(rsi_out.rsi, RatInt(0))

\* number of the two conditions (a) and (b) that hold
ConditionCount(tone, last, ma, rsi) ==
    (IF \/ tone = "positive" /\ RatGt(ma, last)
        \/ tone = "negative" /\ RatGt(last, ma)
     THEN 1 ELSE 0)
    + (IF \/ tone = "positive" /\ RatGt(rsi, RatInt(70))
          \/ tone = "negative" /\ RatGt(RatInt(30), rsi)
       THEN 1 ELSE 0)

\* C14: for every non-empty series and sentiment positive or negative,
\* contradiction_score equals the number of the conditions (a) latest close
\* on the wrong side of the moving average and (b) RSI beyond 70/30 that
\* hold, and is never above 2.
C14_ScoreCountsConditions ==
    (contra_out # EmptyDict /\ in_prices # <<>> /\ in_tone \in {"positive", "negative"}) =>
        /\ Returned(contra_out)
        /\ contra_out.contradiction_score =
               ConditionCount(in_tone, RatInt(in_prices[Len(in_prices)]),
                              contra_out.ma20, contra_out.rsi)
        /\ contra_out.contradiction_score <= 2

\* C14 witness: a positive announcement, latest close below the average and
\* RSI above 70, scored 2
C14_Witness ==
    /\ Returned(contra_out)
    /\ in_tone = "positive"
    /\ RatGt(contra_out.ma20, RatInt(in_prices[Len(in_prices)]))
    /\ RatGt(contra_out.rsi, RatInt(70))
    /\ contra_out.contradiction_score = 2

(***************************************************************************)
(* Claims about the tip classifier                                         *)
(***************************************************************************)
\* 10 points per distinct pattern of HYPE_WORDS found in the lower-cased
\* text, capped at 100
HypePoints(text) ==
    Min(100, 10 * Cardinality({ k \in DOMAIN HYPE_WORDS :
                                    re_search(HYPE_WORDS[k], StrLower(text)) }))

\* C15: with hs the hype points of the text, tip_verdict returns risk high
\* with score max(hs, 70) when hs >= 30 or the flag is set, otherwise risk
\* medium with score hs when hs >= 10, otherwise risk low; the example tip
\* 'guaranteed multibagger target 500' is rated high.
C15_TipVerdictRule ==
    tip_out # EmptyDict =>
        LET hs == HypePoints(in_tip)
        IN  /\ (hs >= 30 \/ in_flag) =>
                   tip_out.risk = "high" /\ tip_out.score = Max(hs, 70)
            /\ (hs < 30 /\ ~in_flag /\ hs >= 10) =>
                   tip_out.risk = "medium" /\ tip_out.score = hs
            /\ (hs < 10 /\ ~in_flag) => tip_out.risk = "low"
            /\ in_tip = ExampleTip => tip_out.risk = "high"

\* C15 witness: the example tip, without the flag, rated high on its three
\* patterns
C15_Witness ==
    /\ tip_out # EmptyDict
    /\ in_tip = ExampleTip
    /\ ~in_flag
    /\ HypePoints(in_tip) = 30
    /\ tip_out.risk = "high"
    /\ tip_out.score = 70

(***************************************************************************)
(* Claims about the verification of announcements                          *)
(***************************************************************************)
AnnText == announcement_text(ann_title, ann_hint, ann_link)

Verdicts == { "verified", "unverified", "needs_official_link" }

\* the text names the demo company and the FDA
DemoText(text) ==
    LET t == StrLower(text)
    IN  Contains(<<"n","o","v","a","p","h","a","r","m">>, t) /\ Contains(<<"f","d","a">>, t)

\* the text contains a keyword of the domain, whatever the case
DomainMatches(entry, text) ==
    LET keywords == Get(entry.value, "keywords", <<>>)
    IN  \E j \in DOMAIN keywords : Contains(StrLower(keywords[j]), StrLower(text))

RECURSIVE MappedUrls(_, _)
\* the regulator URLs of the matching domains, in map order
MappedUrls(rm, text) ==
    IF rm = <<>> THEN <<>>
    ELSE LET regs == Get(rm[1].value, "regulators", <<>>)
         IN  (IF DomainMatches(rm[1], text)
              THEN [i \in DOMAIN regs |-> regs[i].url] ELSE <<>>)
             \o MappedUrls(Tail(rm), text)

RECURSIVE EachOnce(_)
\* a list without the repetitions of its earlier elements
EachOnce(us) ==
    IF us = <<>> THEN <<>>
    ELSE LET front == EachOnce(SubSeq(us, 1, Len(us) - 1))
             last == us[Len(us)]
         IN  IF \E i \in DOMAIN front : front[i] = last THEN front
             ELSE Append(front, last)

\* the references of the official result inside the evidence
ReferencesOf(out) ==
    LET refs == ItemValue(ItemValue(out.evidence, "official").py_dict, "references").py_list
    IN  [i \in DOMAIN refs |-> refs[i].py_str]

\* C16: verify_announcement returns a verdict that is verified, unverified or
\* needs_official_link, never blank, with a non-empty reason; when nothing
\* matches the verdict is unverified.
C16_VerdictNeverBlank ==
    ann_out # EmptyDict =>
        /\ ann_out.verdict \in Verdicts
        /\ ann_out.reason # ""
        /\ (~DemoText(AnnText) /\ MappedUrls(reg_map, AnnText) = <<>>) =>
               ann_out.verdict = "unverified"

\* C16 witness: nothing matched and the verdict is unverified with its reason
C16_Witness ==
    /\ ann_out # EmptyDict
    /\ ~DemoText(AnnText)
    /\ reg_map # <<>>
    /\ MappedUrls(reg_map, AnnText) = <<>>
    /\ ann_out.verdict = "unverified"
    /\ ann_out.reason = "No official match via lightweight search"

\* C17 as stated: whenever the text contains a keyword of some domain the
\* verdict is needs_official_link with the mapped URLs, each once, in map
\* order, and otherwise it is unverified with no references.
C17_SuggestionsAsStated ==
    ann_out # EmptyDict =>
        IF \E i \in DOMAIN reg_map : DomainMatches(reg_map[i], AnnText)
        THEN /\ ann_out.verdict = "needs_official_link"
             /\ ReferencesOf(ann_out) = EachOnce(MappedUrls(reg_map, AnnText))
        ELSE /\ ann_out.verdict = "unverified"
             /\ ReferencesOf(ann_out) = <<>>

\* C17: outside the demo override, when the matching domains map at least
\* one regulator URL the verdict is needs_official_link and the references
\* are exactly those URLs, each once, in map order; when they map none the
\* verdict is unverified with no references.
C17_SuggestionsOutsideDemo ==
    (ann_out # EmptyDict /\ ~DemoText(AnnText)) =>
        LET urls == EachOnce(MappedUrls(reg_map, AnnText))
        IN  IF urls # <<>>
            THEN /\ ann_out.verdict = "needs_official_link"
                 /\ ReferencesOf(ann_out) = urls
            ELSE /\ ann_out.verdict = "unverified"
                 /\ ReferencesOf(ann_out) = <<>>

\* C17 witness: two matching domains that share a regulator URL, returned
\* once
C17_Witness ==
    /\ ann_out # EmptyDict
    /\ ~DemoText(AnnText)
    /\ ann_out.verdict = "needs_official_link"
    /\ Len(ReferencesOf(ann_out)) < Len(MappedUrls(reg_map, AnnText))
    /\ Len(ReferencesOf(ann_out)) >= 3

(***************************************************************************)
(* Claims about the content hash                                           *)
(***************************************************************************)
RECURSIVE FieldsOf(_)
\* a payload as its keys and their values, the order of insertion forgotten
FieldsOf(v) ==
    IF "py_dict" \in DOMAIN v
    THEN [fields |-> [k \in ItemKeys(v.py_dict) |-> FieldsOf(ItemValue(v.py_dict, k))]]
    ELSE IF "py_list" \in DOMAIN v
    THEN [elements |-> [i \in DOMAIN v.py_list |-> FieldsOf(v.py_list[i])]]
    ELSE v

SameFields(p, q) == FieldsOf(PyDict(p)) = FieldsOf(PyDict(q))

\* C19: two payloads with the same keys and values have the same digest,
\* whatever the order in which their keys were inserted, and every digest is
\* 64 hexadecimal characters long.
C19_HashIgnoresInsertionOrder ==
    /\ hash_a # EmptyDict => hash_a.hexlen = 64
    /\ hash_b # EmptyDict => hash_b.hexlen = 64
    /\ (hash_a # EmptyDict /\ hash_b # EmptyDict /\ SameFields(pay_a, pay_b)) =>
           hash_a = hash_b

\* C19 witness: two payloads of the same fields inserted in different orders,
\* one of them a nested dict also inserted differently, with one digest
C19_Witness ==
    /\ hash_a # EmptyDict
    /\ hash_b # EmptyDict
    /\ SameFields(pay_a, pay_b)
    /\ Len(pay_a) >= 2
    /\ pay_a[1].key # pay_b[1].key
    /\ \E k \in ItemKeys(pay_a) : ItemValue(pay_a, k) # ItemValue(pay_b, k)
    /\ hash_a = hash_b

(***************************************************************************)
(* Claims about evidence cases and their persistence                       *)
(***************************************************************************)
\* the case carries the hash of its other fields
HasContentHash(case) ==
    /\ "hash" \in ItemKeys(case)
    /\ ItemValue(case, "hash") = hash_payload(SelectSeq(case, LAMBDA it : it.key # "hash"))

\* C18: every evidence case that an analysis produces (verify_announcement,
\* the Document Verifier page, the chat analysis) contains a content hash
\* computed over its fields.
C18_EveryCaseHashed ==
    \A page \in Pages : cases[page] # <<>> => HasContentHash(cases[page])

\* C20: every save_evidence call executes at most one insert and returns
\* {ok: true} or {error: reason}; an ok call appends one row to the store, a
\* failed call leaves the store as it was, and no step changes or removes a
\* row that is already stored.
C20_SaveIsAppendOnly ==
    [][ /\ Len(store') >= Len(store)
        /\ SubSeq(store', 1, Len(store)) = store
        /\ save_calls' = save_calls => store' = store
        /\ save_calls' # save_calls =>
               /\ insert_attempts' <= 1
               /\ \/ /\ DOMAIN save_out' = {"ok", "data"}
                     /\ save_out'.ok
                     /\ Len(store') = Len(store) + 1
                  \/ /\ DOMAIN save_out' = {"error"}
                     /\ store' = store ]_vars

\* C20 witness: a save that failed at the insert after two rows were stored
C20_Witness ==
    /\ Len(store) = 2
    /\ save_calls = 3
    /\ insert_attempts = 1
    /\ "error" \in DOMAIN save_out

(***************************************************************************)
(* Claims about the lookback window of the RSI                             *)
(***************************************************************************)
\* series of more than 15 closes whose last 15 closes are those of xs
SameRecentCloses(xs) ==
    { q \in PriceSeries : Len(q) > 15 /\ LastN(q, 15) = LastN(xs, 15) }

\* C26: the RSI that contradiction_score reports depends on the 14 most
\* recent price changes only: every series of more than 15 points that has
\* the same last 15 closes as the scored one yields the same RSI.
C26_RsiOverRecentWindow ==
    (Returned(contra_out) /\ Len(in_prices) > 15) =>
        \A q \in SameRecentCloses(in_prices) :
            RatEq(contradiction_score(q, in_tone).rsi, contra_out.rsi)

(***************************************************************************)
(* Claims about short price series                                         *)
(***************************************************************************)
\* the rows score_from_signals appends for the market contradiction of the
\* scored series
ContraRowsOf(out) == contra_rows(Sig("contra", render_contra(out)))

\* C28: for a series of at most 15 closes and any sentiment the RSI is the
\* neutral 50 and contradiction_score is at most 1, so score_from_signals
\* appends no Market Contradiction row for it.
C28_ShortSeriesNeverContradicts ==
    (contra_out # EmptyDict /\ Len(in_prices) <= 15) =>
        /\ Returned(contra_out) =>
               /\ RatEq(contra_out.rsi, RatInt(50))
               /\ contra_out.contradiction_score <= 1
        /\ ContraRowsOf(contra_out) = <<>>

\* the demo series of the document verifier, scored as a positive claim
C28_Witness ==
    /\ in_prices = DemoPrices
    /\ in_tone = "positive"
    /\ Returned(contra_out)
    /\ contra_out.contradiction_score = 1
    /\ ContraRowsOf(contra_out) = <<>>

(***************************************************************************)
(* Claims about the reach of the verified verdict                          *)
(***************************************************************************)
\* the rows score_from_signals appends for the official signal of the
\* verified announcement
OfficialRowsOf(out) == official_rows(Sig("official", out))

\* C27: verify_announcement returns verified exactly when the joined title,
\* company hint and link contain both novapharm and fda, whatever the case;
\* every other input is unverified or needs_official_link and never gets
\* the +30 Official Filing Match row.
C27_VerifiedOnlyByDemo ==
    ann_out # EmptyDict =>
        /\ (ann_out.verdict = "verified") <=> DemoText(AnnText)
        /\ ~DemoText(AnnText) =>
               /\ ann_out.verdict \in { "unverified", "needs_official_link" }
               /\ \A i \in DOMAIN OfficialRowsOf(ann_out) :
                      OfficialRowsOf(ann_out)[i].Contribution # 30

\* C27 witness: a text that names the company without the FDA, with a
\* regulator map that knows its sector, is not verified
C27_Witness ==
    /\ ann_out # EmptyDict
    /\ Contains(<<"n","o","v","a","p","h","a","r","m">>, StrLower(AnnText))
    /\ ~DemoText(AnnText)
    /\ reg_map # <<>>
    /\ ann_out.verdict # "verified"
    /\ OfficialRowsOf(ann_out)[1].Contribution \in { 5, -5 }

(***************************************************************************)
(* Claims about the identifiers extracted from a document                  *)
(***************************************************************************)
\* the rows score_from_signals appends for the registry signal
IdentifierRowsOf(reg) == identifier_rows(Sig("identifiers", reg))

\* every extracted identifier was validated and passed its grammar, and the
\* score grants the Identifiers Valid row when there is one
ExtractedAllValid ==
    /\ \A k \in DOMAIN doc_ids : k \in DOMAIN doc_reg /\ doc_reg[k].pattern_valid
    /\ doc_ids # EmptyDict =>
           /\ Len(IdentifierRowsOf(doc_reg)) = 1
           /\ IdentifierRowsOf(doc_reg)[1].Contribution = 10

\* every character of the text is an ASCII character
IsAscii(text) == \A i \in DOMAIN text : text[i] # KelvinSign

LocalExplanation ==
    format_explanation(gem_context.verdict_text, gem_context.reasons,
                       gem_context.references, gem_context.lookup)

IsPrefix(p, s) == Len(p) <= Len(s) /\ SubSeq(s, 1, Len(p)) = p

\* the generator answered: a key, status 200 and a candidate text
GeneratorAnswered ==
    gem_key /\ gem_reply.status_code = 200 /\ gem_reply.shape = "candidates"

\* C21: gemini_explain always returns the local explanation built by
\* _format_explanation from the verdict, reasons, references and lookup:
\* exactly that text when the key is missing, the status is not 200 or the
\* call fails, and that text as a prefix when the generator answers.
C21_LocalExplanationAlways ==
    gem_out # EmptyDict =>
        /\ DOMAIN gem_out = { "text" }
        /\ IsPrefix(LocalExplanation, gem_out.text)
        /\ ~GeneratorAnswered => gem_out.text = LocalExplanation
        /\ Len(LocalExplanation) >= 2
        /\ LocalExplanation[2] = gem_context.verdict_text

\* C21 witness: the generator answers with status 429 and the text of more
\* than six reasons is returned cut to six, followed by the merged references
C21_Witness ==
    /\ gem_out # EmptyDict
    /\ gem_key
    /\ gem_reply.status_code = 429
    /\ Len(gem_context.reasons) = MaxListed
    /\ gem_context.lookup # PyNone
    /\ gem_out.text = LocalExplanation
    /\ \E i \in DOMAIN gem_out.text : gem_out.text[i] = "**References:**"
    /\ ~\E i \in DOMAIN gem_out.text : gem_out.text[i] = ReasonPool[MaxListed]

(***************************************************************************)
(* Claims about the curated registry lookup                                *)
(***************************************************************************)
ClaimText == IF lk_claim = PyNone THEN <<>> ELSE lk_claim.chars

\* the claim contains the name or an alias of the entity, whatever the case
Mentions(entry, text) ==
    \/ Contains(StrLower(entry.key), StrLower(text))
    \/ /\ "aliases" \in DOMAIN entry.value
       /\ \E i \in DOMAIN entry.value["aliases"] :
              Contains(StrLower(entry.value["aliases"][i]), StrLower(text))

\* places of the registry whose entity the claim mentions
Mentioned == { i \in DOMAIN lk_file.db : Mentions(lk_file.db[i], ClaimText) }

\* the identifier of a record: its LEI, else ISIN, else SEBI, else CIN
IdentifierOf(rec) ==
    LET ks == <<"LEI", "ISIN", "SEBI", "CIN">>
        present == { i \in DOMAIN ks : ks[i] \in DOMAIN rec }
    IN  IF present = {} THEN PyNone
        ELSE rec[ks[CHOOSE i \in present : \A j \in present : i <= j]]

\* C22: lookup_entity always returns a dict with found; a missing or
\* unreadable registry gives found = False with a reason; when the claim
\* contains, whatever the case, the name or an alias of a tracked entity the
\* result is found = True with the first such entity in registry order and
\* its identifier, domain and official sites; otherwise it is found = False
\* with reason 'no entity match'.
C22_LookupFirstMention ==
    lk_out # EmptyDict =>
        /\ "found" \in DOMAIN lk_out
        /\ lk_file.state # "loaded" =>
               ~lk_out.found /\ lk_out.reason # <<>> /\ lk_out.reason # <<"no entity match">>
        /\ (lk_file.state = "loaded" /\ Mentioned = {}) =>
               ~lk_out.found /\ lk_out.reason = <<"no entity match">>
        /\ (lk_file.state = "loaded" /\ Mentioned # {}) =>
               LET first == lk_file.db[CHOOSE i \in Mentioned : \A j \in Mentioned : i <= j]
               IN  /\ lk_out.found
                   /\ lk_out.entity = first.key
                   /\ lk_out.id = IdentifierOf(first.value)
                   /\ lk_out.domain = (IF "domain" \in DOMAIN first.value
                                       THEN first.value["domain"] ELSE PyNone)
                   /\ lk_out.official_sites = (IF "official_sites" \in DOMAIN first.value
                                               THEN first.value["official_sites"]
                                               ELSE PyList(<<>>))

\* C22 witness: an upper-case claim mentions two entities, one by an alias,
\* and the earlier one of the registry is returned with its ISIN
C22_Witness ==
    /\ lk_out # EmptyDict
    /\ lk_file.state = "loaded"
    /\ Cardinality(Mentioned) = 2
    /\ lk_claim = PyText(<<"T","A","T","A"," ","C","O","N","S","U","L","T","A","N","C","Y"," ","Q","2">>)
    /\ lk_file.db[1] # EntityTcs
    /\ lk_out.found
    /\ lk_out.entity = EntityTcs.key
    /\ lk_out.id = PyStr("INE467B01029")

(***************************************************************************)
(* Claims about the regulator map cache                                    *)
(***************************************************************************)
\* what a load of the file gives: its map, or the empty map when it cannot
\* be read or parsed
OutcomeOf(file) == IF file.state = "loaded" THEN PyDict(file.map) ELSE PyDict(<<>>)

\* C25: over the calls of load_regulator_map in one process the file is
\* opened at most once: the outcome of the first call (the parsed map, or the
\* empty map when reading or parsing failed) is returned by every later
\* call, so a failed first load is never retried.
C25_LoadedOnce ==
    /\ rm_opens <= 1
    /\ rm_calls >= 1 =>
           /\ rm_opens = 1
           /\ rm_first.ret = OutcomeOf(rm_first.file)
           /\ rm_ret = rm_first.ret
           /\ G_REG_MAP = rm_first.ret

\* C25 witness: the first load failed, the file was put in place afterwards,
\* and a later call still returns the empty map
C25_Witness ==
    /\ rm_calls >= 2
    /\ rm_first # PyNone
    /\ rm_first.file.state = "missing"
    /\ rm_file.state = "loaded"
    /\ rm_file.map # <<>>
    /\ rm_ret = PyDict(<<>>)
    /\ rm_opens = 1

(***************************************************************************)
(* Claims about the crew sweep                                             *)
(***************************************************************************)
\* the last agent run returned a dict that reports a verdict
ReportsVerdict(res) ==
    "py_none" \notin DOMAIN res /\ "raised" \notin DOMAIN res /\ "verdict" \in DOMAIN res

\* an agent was run in this step
AgentRan == crew_i' = crew_i + 1

C23_Step ==
    AgentRan =>
        /\ (~crew_strict /\ crew_merged.verdict_text \notin
                { "unknown", "unverified", "needs_official_link" }) =>
               crew_merged'.verdict_text = crew_merged.verdict_text
        /\ (crew_strict /\ ReportsVerdict(crew_res')) =>
               crew_merged'.verdict_text = crew_res'["verdict"]
        /\ ~ReportsVerdict(crew_res') =>
               crew_merged'.verdict_text = crew_merged.verdict_text

\* C23: in non-strict mode, once the merged verdict is outside {unknown,
\* unverified, needs_official_link} no later agent changes it; in strict
\* mode every result that has a verdict overwrites it, so the verdict
\* returned is that of the last agent that reported one.
C23_VerdictPolicy ==
    /\ []((crew_strict /\ crew_ret # EmptyDict) => crew_ret.verdict_text = crew_last)
    /\ [][C23_Step]_vars

\* C23 witness: without strict a later agent reported unverified and the
\* sweep still returns verified
C23_Witness ==
    /\ ~crew_strict
    /\ crew_ret # EmptyDict
    /\ crew_ret.verdict_text = "verified"
    /\ crew_last = "unverified"

C24_State ==
    /\ crew_ran = SubSeq(AGENTS, 1, crew_i - 1)
    /\ (crew_state = "ready" /\ crew_ret = EmptyDict) => ENABLED (RunAgent \/ ReturnMerged)
    /\ crew_ret # EmptyDict =>
           /\ crew_ran = AGENTS
           /\ crew_ran[1] = "EntitySolverAgent"
           /\ crew_ran[Len(crew_ran)] = "LLMExplainerAgent"
           /\ DOMAIN merged_initial \subseteq DOMAIN crew_ret
           /\ crew_ret.agent_errors = crew_merged.agent_errors

C24_Step ==
    AgentRan =>
        /\ "raised" \in DOMAIN crew_res' =>
               /\ DOMAIN crew_merged'.agent_errors =
                      DOMAIN crew_merged.agent_errors \cup { AGENTS[crew_i] }
               /\ crew_merged'.agent_errors[AGENTS[crew_i]] = crew_res'["raised"]
               /\ \A a \in DOMAIN crew_merged.agent_errors \ { AGENTS[crew_i] } :
                      crew_merged'.agent_errors[a] = crew_merged.agent_errors[a]
               /\ crew_merged' = [crew_merged EXCEPT !.agent_errors = crew_merged'.agent_errors]
        /\ "py_none" \in DOMAIN crew_res' => crew_merged' = crew_merged

C29_CrewVerdictReplaces ==
    chat_out # EmptyDict =>
        chat_out.out.verdict_text =
            (IF crew_state = "ready" THEN crew_ret.verdict_text ELSE chat_out.baseline)

\* C29: whenever the crew returns a dict with a verdict_text that is not
\* empty, that verdict is the final verdict of the chat analysis, so a
\* baseline verified becomes unknown when no agent reports a verdict; the
\* baseline verdict is kept when the crew is unavailable or raises, and
\* when the verdict_text of the crew is empty.
C29_NonEmptyCrewVerdictReplaces ==
    chat_out # EmptyDict =>
        chat_out.out.verdict_text =
            (IF crew_state = "ready" /\ crew_ret.verdict_text # ""
             THEN crew_ret.verdict_text ELSE chat_out.baseline)

\* C29 witness: no agent reported a verdict and the baseline verified became
\* unknown
C29_Witness ==
    /\ chat_out # EmptyDict
    /\ chat_out.baseline = "verified"
    /\ crew_state = "ready"
    /\ crew_last = "unknown"
    /\ chat_out.out.verdict_text = "unknown"
    /\ chat_out.out.crew_used

====
